---- MODULE Spec2Model ----
(***************************************************************************)
(* Model of the grading endpoint POST /api/grade of src/app.py.           *)
(*                                                                         *)
(* Python strings are sequences of atomic lexemes (TLA+ strings).  The    *)
(* four submission categories of the source are written in ASCII:         *)
(*   "paragraph"        for '段落寫作評閱'                                *)
(*   "quiz"             for '測驗寫作評改'                                *)
(*   "learning_sheet"   for '學習單批改'                                  *)
(*   "reading_writing"  for '讀寫習作評分'                                *)
(* and the grade levels "grade7" for '七年級', "grade10" for a grade the  *)
(* answer-file maps do not list.                                          *)
(***************************************************************************)
EXTENDS Integers, Sequences, FiniteSets, TLC

\* ------------------------------------------------------------ bounds
\* Most files one multipart request uploads, over all four file fields.
MaxFiles == 2

\* ------------------------------------------------------------ Python values
\* A value read from a form or a JSON body: None, a str, or a non-string
\* (a JSON number such as 5, which is truthy and has no .strip()).
None == [t |-> "None", s |-> <<>>]
Str(s) == [t |-> "str", s |-> s]
Number == [t |-> "int", s |-> <<>>]

\* Python truthiness, as used by `if x:` and `not x`.
Truthy(v) == (v.t = "str" /\ v.s # <<>>) \/ v.t = "int"

\* str(v), as an f-string or str.format renders it.
ToStr(v) == IF v.t = "str" THEN v.s ELSE IF v.t = "None" THEN <<"None">> ELSE <<"5">>

Whitespace == {" ", "\n"}

SetMin(S) == CHOOSE x \in S : \A y \in S : x <= y
SetMax(S) == CHOOSE x \in S : \A y \in S : x >= y

\* str.strip()
Strip(s) ==
  LET keep == {i \in 1..Len(s) : s[i] \notin Whitespace}
  IN IF keep = {} THEN <<>> ELSE SubSeq(s, SetMin(keep), SetMax(keep))

\* `sub in s` for a one-lexeme needle
Contains(s, lexeme) == \E i \in 1..Len(s) : s[i] = lexeme

RECURSIVE Join(_, _)
\* sep.join(parts)
Join(sep, parts) ==
  IF parts = <<>> THEN <<>>
  ELSE IF Len(parts) = 1 THEN parts[1]
  ELSE parts[1] \o sep \o Join(sep, Tail(parts))

RECURSIVE Concat(_)
\* "".join(parts)
Concat(parts) == IF parts = <<>> THEN <<>> ELSE Head(parts) \o Concat(Tail(parts))

\* ------------------------------------------------------------ categories
Categories == {"paragraph", "quiz", "learning_sheet", "reading_writing"}
TextEligible == {"paragraph", "quiz"}

\* prompt_file_map with one entry naming another category's file.
prompt_file_map_Swapped ==
  [c \in Categories |->
     CASE c = "paragraph" -> "paragraph.txt"
       [] c = "quiz" -> "quiz.txt"
       [] c = "learning_sheet" -> "reading_writing.txt"
       [] c = "reading_writing" -> "reading_writing.txt"]

\* prompt_file_map
prompt_file_map ==
  [c \in Categories |->
     CASE c = "paragraph" -> "paragraph.txt"
       [] c = "quiz" -> "quiz.txt"
       [] c = "learning_sheet" -> "learning_sheet.txt"
       [] c = "reading_writing" -> "reading_writing.txt"]

\* prompt_file_map.get(submission_type): "" stands for None
PromptFileName(submission_type) ==
  IF submission_type.t = "str" /\ Len(submission_type.s) = 1
     /\ submission_type.s[1] \in DOMAIN prompt_file_map
  THEN prompt_file_map[submission_type.s[1]] ELSE ""

\* get_json_format_example: the example literal of the category, the
\* paragraph one for anything else.
get_json_format_example(submission_type) ==
  IF submission_type = Str(<<"quiz">>) THEN <<"mock_quiz">>
  ELSE IF submission_type = Str(<<"paragraph">>) THEN <<"mock_paragraph">>
  ELSE IF submission_type = Str(<<"learning_sheet">>) THEN <<"mock_learning_sheet">>
  ELSE IF submission_type = Str(<<"reading_writing">>) THEN <<"mock_reading_writing">>
  ELSE <<"mock_paragraph">>

\* ------------------------------------------------------------ JSON text
\* Lexemes of a model output.  Inside JSON: "{", "}", ",", a key with its
\* colon ("submissionType:" is the text "submissionType": ), a string
\* literal (a category name, "other"), a number "1", "null", an array "[]",
\* and the quote "q", which opens and closes a string literal holding any
\* lexemes.  Outside JSON: prose "p", and the fences: "FENCE_JSON" is the
\* text ```json and "FENCE" the text ```.
KeyLexemes == {"submissionType:", "score:", "feedback:"}
StringLiterals == Categories \cup {"other"}

KeyName(lexeme) ==
  CASE lexeme = "submissionType:" -> "submissionType"
    [] lexeme = "score:" -> "score"
    [] lexeme = "feedback:" -> "feedback"

\* The first index >= i of s that holds no whitespace (Len(s)+1 if none).
SkipWs(s, i) ==
  LET rest == {j \in i..Len(s) : s[j] \notin Whitespace}
  IN IF rest = {} THEN Len(s) + 1 ELSE SetMin(rest)

EmptyDict == [k \in {} |-> <<>>]
ParseFail == [ok |-> FALSE, next |-> 0, type |-> "error", d |-> EmptyDict]
Parsed(next, type, d) == [ok |-> TRUE, next |-> next, type |-> type, d |-> d]

\* d[key] = value, as a Python dict assignment (a repeated key is replaced).
DictSet(d, key, value) ==
  [k \in DOMAIN d \cup {key} |-> IF k = key THEN value ELSE d[k]]

RECURSIVE ParseValue(_, _)
RECURSIVE ParseMembers(_, _, _, _)

\* One JSON value of s starting at index i: whether it parses, the index
\* after it, its Python type, and for an object its members, each value
\* kept as the text it was written with.
ParseValue(s, i) ==
  IF i > Len(s) THEN ParseFail
  ELSE IF s[i] = "{" THEN ParseMembers(s, SkipWs(s, i + 1), EmptyDict, TRUE)
  ELSE IF s[i] = "q" THEN
    LET close == {j \in (i + 1)..Len(s) : s[j] = "q"}
    IN IF close = {} THEN ParseFail ELSE Parsed(SetMin(close) + 1, "str", EmptyDict)
  ELSE IF s[i] \in StringLiterals THEN Parsed(i + 1, "str", EmptyDict)
  ELSE IF s[i] = "1" THEN Parsed(i + 1, "int", EmptyDict)
  ELSE IF s[i] = "null" THEN Parsed(i + 1, "None", EmptyDict)
  ELSE IF s[i] = "[]" THEN Parsed(i + 1, "list", EmptyDict)
  ELSE ParseFail

\* The members of an object from index i (no whitespace at i), d holding
\* the members read so far; "}" may stand at i only when first.
ParseMembers(s, i, d, first) ==
  IF i > Len(s) THEN ParseFail
  ELSE IF s[i] = "}" THEN (IF first THEN Parsed(i + 1, "dict", d) ELSE ParseFail)
  ELSE IF s[i] \notin KeyLexemes THEN ParseFail
  ELSE
    LET start == SkipWs(s, i + 1)
        v == ParseValue(s, start)
    IN IF ~v.ok THEN ParseFail
       ELSE
         LET d2 == DictSet(d, KeyName(s[i]), SubSeq(s, start, v.next - 1))
             j == SkipWs(s, v.next)
         IN IF j > Len(s) THEN ParseFail
            ELSE IF s[j] = "}" THEN Parsed(j + 1, "dict", d2)
            ELSE IF s[j] = "," THEN ParseMembers(s, SkipWs(s, j + 1), d2, FALSE)
            ELSE ParseFail

\* json.loads(s): one value with whitespace around it and nothing else;
\* ~ok stands for json.JSONDecodeError.
JsonLoads(s) ==
  LET v == ParseValue(s, SkipWs(s, 1))
  IN IF v.ok /\ SkipWs(s, v.next) = Len(s) + 1 THEN v ELSE ParseFail

\* re.search(r"```json\s*(\{.*?\})\s*```", s, re.DOTALL) tried at index i:
\* the indices at which group 1 can end.  The closing ``` also matches
\* the first three characters of a following ```json.
FenceEnds(s, i) ==
  LET open == SkipWs(s, i + 1)
  IN IF s[i] # "FENCE_JSON" \/ open > Len(s) THEN {}
     ELSE IF s[open] # "{" THEN {}
     ELSE {k \in (open + 1)..Len(s) :
             /\ s[k] = "}"
             /\ SkipWs(s, k + 1) <= Len(s)
             /\ s[SkipWs(s, k + 1)] \in {"FENCE", "FENCE_JSON"}}

\* The indices where the pattern matches: re.search takes the leftmost.
FenceStarts(s) == {i \in 1..Len(s) : FenceEnds(s, i) # {}}

\* json_block_match.group(1): from the "{" to the first "}" that the
\* closing fence follows (.*? is lazy).
FenceGroup(s) ==
  LET i == SetMin(FenceStarts(s))
  IN SubSeq(s, SkipWs(s, i + 1), SetMin(FenceEnds(s, i)))

\* ai_response_text: the fenced block if the pattern matches, else the
\* whole text.
ExtractJsonText(full_response_text) ==
  IF FenceStarts(full_response_text) # {} THEN FenceGroup(full_response_text)
  ELSE full_response_text

\* ------------------------------------------------------------ requests
\* An uploaded file (a FileStorage): its number in the upload, and
\* whether it has a filename (a FileStorage without one is falsy).
IdLexeme == <<"img1", "img2", "img3", "img4">>
File(id, named) == [id |-> id, named |-> named]

FormFields == {"submissionType", "gradeLevel", "text", "bookrange", "learnsheets",
               "worksheetCategory", "standardAnswerText", "scoringInstructions"}
FileFields == <<"essayImage", "learningSheetFile", "readingWritingFile", "standardAnswerImage">>

SubmissionTypeValues == {Str(<<c>>) : c \in Categories} \cup {Str(<<"other">>), None}
GradeLevelValues == {Str(<<"grade7">>), Str(<<"grade10">>), None}
TextValues == {None, Str(<<>>), Str(<<" ">>), Str(<<"essay">>)}

\* The optional fields, present or absent together in three ways.
NoOptionalFields ==
  [bookrange |-> None, learnsheets |-> None, worksheetCategory |-> None,
   standardAnswerText |-> None, scoringInstructions |-> None]
AllOptionalFields ==
  [bookrange |-> Str(<<"Book 5">>), learnsheets |-> Str(<<"Lesson 1">>),
   worksheetCategory |-> Str(<<"full_english_answers">>),
   standardAnswerText |-> Str(<<"answer_key">>), scoringInstructions |-> Str(<<"instructions">>)]
UnmappedOptionalFields ==
  [bookrange |-> Str(<<"Book 5">>), learnsheets |-> Str(<<"Lesson 1">>),
   worksheetCategory |-> Str(<<"unlisted_answers">>),
   standardAnswerText |-> Str(<<>>), scoringInstructions |-> None]
OptionalFieldValues == {NoOptionalFields, AllOptionalFields, UnmappedOptionalFields}

\* Uploads of n files: file i goes to the field FileFields[f[i]], fields in
\* non-decreasing order, so that each field's list is in upload order.  A
\* file without a filename is what a file input left empty sends: it is
\* alone in its field.
Uploads(n) ==
  {u \in [1..n -> [field : 1..Len(FileFields), named : BOOLEAN]] :
     /\ \A i \in 1..n, j \in 1..n : i < j => u[i].field <= u[j].field
     /\ \A i \in 1..n, j \in 1..n : (i # j /\ u[i].field = u[j].field) => u[i].named}

\* request.files.getlist(name)
FilesOf(u, name) ==
  LET idx == {i \in DOMAIN u : FileFields[u[i].field] = name}
      RECURSIVE List(_)
      List(S) == IF S = {} THEN <<>>
                 ELSE <<File(SetMin(S), u[SetMin(S)].named)>> \o List(S \ {SetMin(S)})
  IN List(idx)

FormOf(st, gl, text, opt) ==
  [f \in FormFields |->
     CASE f = "submissionType" -> st
       [] f = "gradeLevel" -> gl
       [] f = "text" -> text
       [] f = "bookrange" -> opt.bookrange
       [] f = "learnsheets" -> opt.learnsheets
       [] f = "worksheetCategory" -> opt.worksheetCategory
       [] f = "standardAnswerText" -> opt.standardAnswerText
       [] f = "scoringInstructions" -> opt.scoringInstructions]

Request(ct, body, form, u) ==
  [content_type |-> ct, body |-> body, form |-> form,
   files |-> [n \in {FileFields[i] : i \in 1..Len(FileFields)} |-> FilesOf(u, n)]]

\* multipart/form-data requests: form fields are strings, files allowed.
\* Without files `text` takes each of its values; with files it is absent,
\* empty or given.
MultipartRequests ==
  {Request("multipart/form-data", "form", FormOf(st, gl, text, opt), u) :
     st \in SubmissionTypeValues, gl \in GradeLevelValues, text \in TextValues,
     opt \in OptionalFieldValues, u \in Uploads(0)}
  \cup {Request("multipart/form-data", "form", FormOf(st, gl, text, opt), u) :
          st \in SubmissionTypeValues, gl \in GradeLevelValues,
          text \in {None, Str(<<>>), Str(<<"essay">>)},
          opt \in OptionalFieldValues, u \in UNION {Uploads(n) : n \in 1..MaxFiles}}

\* JSON requests: no files; `text` may be a non-string.  A body that is not
\* valid JSON, or is valid JSON but no object ("list"), carries no fields.
JsonRequests ==
  {Request("application/json", "object", FormOf(st, gl, text, opt), <<>>) :
     st \in SubmissionTypeValues, gl \in GradeLevelValues,
     text \in TextValues \cup {Number}, opt \in OptionalFieldValues}
  \cup {Request("application/json", b, FormOf(None, None, None, NoOptionalFields), <<>>) :
          b \in {"invalid", "list"}}

\* Any other content type (e.g. application/x-www-form-urlencoded): the
\* form may hold every field, no files.
OtherRequests ==
  {Request("application/x-www-form-urlencoded", "form", FormOf(st, gl, text, opt), <<>>) :
     st \in SubmissionTypeValues, gl \in GradeLevelValues,
     text \in {None, Str(<<"essay">>)}, opt \in {NoOptionalFields, AllOptionalFields}}

AllRequests == MultipartRequests \cup JsonRequests \cup OtherRequests

\* ------------------------------------------------------------ the handler's frame
\* The locals of grade_writing as they stand at lines 278-289, with the
\* ones assigned later, and pc: the external call the handler waits on.
InitialFrame ==
  [pc |-> "idle",
   submission_type |-> None, grade_level |-> None, text_input |-> None,
   bookrange |-> None, learnsheets |-> None, worksheet_category |-> None,
   essay_image_files |-> <<>>, learning_sheet_files |-> <<>>,
   reading_writing_files |-> <<>>,
   standard_answer_text |-> None, standard_answer_image_files |-> <<>>,
   scoring_instructions |-> None,
   contents_for_gemini |-> <<>>, essay_content |-> <<>>, ocr_results |-> <<>>,
   k |-> 0,
   processed_standard_answer |-> <<>>, ocr_standard_answer_results |-> <<>>,
   standard_answers_json_str |-> <<>>,
   target_file |-> <<>>, final_prompt |-> <<>>,
   full_response_text |-> None, ai_response_text |-> None]

\* The HTTP response: no response yet is status 0.  A JSON object body is
\* a function from its keys to their values.
NoResponse == [status |-> 0, body |-> EmptyDict]
ErrorBody(message) == [key \in {"error"} |-> message]
ErrorBodyWith(message, detail_key, detail) ==
  [key \in {"error", detail_key} |-> IF key = "error" THEN message ELSE detail]

\* `return jsonify(body), status`
Reply(h, status, body) ==
  [frame |-> [h EXCEPT !.pc = "done"], http |-> [status |-> status, body |-> body]]
\* The handler goes on to its next external call.
Goes(h, pc) == [frame |-> [h EXCEPT !.pc = pc], http |-> NoResponse]

\* The outer handler missing: the exception leaves grade_writing and the
\* framework answers 500 with a page that is no JSON object.
InternalError_Propagates(h, e) == Reply(h, 500, EmptyDict)

\* The outer `except Exception as e` of lines 999-1002.
InternalError(h, e) ==
  Reply(h, 500, ErrorBodyWith(<<"Internal server error during grading.">>, "details", <<e>>))

Part_from_text(text) == [kind |-> "text", data |-> text]
Part_from_data(file) == [kind |-> "image", data |-> <<IdLexeme[file.id]>>]

\* Lines 291-326: the locals after the request is read.  raised is the
\* exception of request.get_json() on an invalid body, or of data.get on
\* a body that is no object.
ParseRequest(req) ==
  LET st == req.form["submissionType"]
      base == [InitialFrame EXCEPT !.submission_type = st,
                                   !.grade_level = req.form["gradeLevel"]]
      quiz == st = Str(<<"quiz">>)
  IN
  IF req.content_type = "multipart/form-data" THEN
    [raised |-> "",
     frame |-> [base EXCEPT
       !.text_input = req.form["text"],
       !.bookrange = IF st = Str(<<"reading_writing">>) THEN req.form["bookrange"] ELSE None,
       !.learnsheets = IF st = Str(<<"learning_sheet">>) THEN req.form["learnsheets"] ELSE None,
       !.worksheet_category =
          IF st = Str(<<"learning_sheet">>) THEN req.form["worksheetCategory"] ELSE None,
       !.essay_image_files = req.files["essayImage"],
       !.learning_sheet_files = req.files["learningSheetFile"],
       !.reading_writing_files = req.files["readingWritingFile"],
       !.standard_answer_text =
          IF quiz THEN (IF req.form["standardAnswerText"] = None THEN Str(<<>>)
                        ELSE req.form["standardAnswerText"])
          ELSE None,
       !.standard_answer_image_files =
          IF quiz THEN req.files["standardAnswerImage"] ELSE <<>>,
       !.scoring_instructions =
          IF quiz THEN (IF req.form["scoringInstructions"] = None THEN Str(<<>>)
                        ELSE req.form["scoringInstructions"])
          ELSE None]]
  ELSE IF req.content_type = "application/json" THEN
    IF req.body = "invalid" THEN [raised |-> "BadRequest", frame |-> InitialFrame]
    ELSE IF req.body # "object" THEN [raised |-> "AttributeError", frame |-> InitialFrame]
    ELSE
    [raised |-> "",
     frame |-> [base EXCEPT
       !.bookrange = req.form["bookrange"],
       !.learnsheets = req.form["learnsheets"],
       !.worksheet_category = req.form["worksheetCategory"],
       !.text_input = req.form["text"],
       !.standard_answer_text =
          IF quiz THEN (IF req.form["standardAnswerText"] = None THEN Str(<<>>)
                        ELSE req.form["standardAnswerText"])
          ELSE None,
       !.scoring_instructions =
          IF quiz THEN (IF req.form["scoringInstructions"] = None THEN Str(<<>>)
                        ELSE req.form["scoringInstructions"])
          ELSE None]]
  ELSE [raised |-> "", frame |-> base]

\* ------------------------------------------------------------ response normalizer
\* A model response: its candidates, each a list of parts (a part without
\* a text attribute is skipped), and the block reason of its prompt
\* feedback.
TextPart(text) == [has_text |-> TRUE, text |-> text]
NonTextPart == [has_text |-> FALSE, text |-> <<>>]
Response(candidates, block_reason) ==
  [raises |-> FALSE, candidates |-> candidates, block_reason |-> block_reason]
\* generate_content raising (transport, quota, an undefined client);
\* block_reason holds str(api_error).
CallRaising(api_error) == [raises |-> TRUE, candidates |-> <<>>, block_reason |-> api_error]
CallRaises == CallRaising("api_error")
ApiErrors == {"api_error", "quota_exceeded"}

\* full_response_text[:500] of line 991
DetailLimit == 500
\* The slice left out: the whole text is returned.
Truncate_Whole(s, n) == s
Truncate(s, n) == IF Len(s) <= n THEN s ELSE SubSeq(s, 1, n)

\* The text of the first part alone, as response.text would give it for a
\* response of one part.
FullResponseText_FirstPart(response) ==
  LET parts == response.candidates[1]
  IN IF parts = <<>> \/ ~parts[1].has_text THEN <<>> ELSE parts[1].text

\* Line 959: "".join(part.text for part in response.candidates[0].content.parts
\*                    if hasattr(part, 'text'))
FullResponseText(response) ==
  LET parts == response.candidates[1]
      RECURSIVE Texts(_)
      Texts(i) == IF i > Len(parts) THEN <<>>
                  ELSE (IF parts[i].has_text THEN <<parts[i].text>> ELSE <<>>) \o Texts(i + 1)
  IN Concat(Texts(1))

\* CorrectSubmissionType with the check for a different value left out: only
\* a missing submissionType is filled in.
CorrectSubmissionType_OnlyMissing(ai_result, submission_type) ==
  IF "submissionType" \notin DOMAIN ai_result
  THEN DictSet(ai_result, "submissionType", submission_type.s)
  ELSE ai_result

\* Lines 980-982: the category of the request replaces a missing or
\* different submissionType.
CorrectSubmissionType(ai_result, submission_type) ==
  IF "submissionType" \notin DOMAIN ai_result
     \/ ai_result["submissionType"] # submission_type.s
  THEN DictSet(ai_result, "submissionType", submission_type.s)
  ELSE ai_result

\* Lines 947-996: from the model's response to the HTTP response.
Normalize(h, response) ==
  IF response.candidates = <<>> THEN
    Reply(h, 500,
      ErrorBodyWith(<<"AI model did not return a valid response (it might have been blocked).">>,
                    "details_for_log", <<"Blocked due to: ", response.block_reason>>))
  ELSE
    LET full_response_text == FullResponseText(response)
        ai_response_text == ExtractJsonText(full_response_text)
        h2 == [h EXCEPT !.full_response_text = Str(full_response_text),
                        !.ai_response_text = Str(ai_response_text)]
        loaded == JsonLoads(ai_response_text)
    IN IF ~loaded.ok THEN
         Reply(h2, 500,
           ErrorBodyWith(<<"AI response format error (cannot parse JSON).">>,
                         "details_for_log", Truncate(full_response_text, DetailLimit)))
       ELSE IF loaded.type # "dict" THEN
         \* `in` or .get on a list, str, int or None raises; line 993
         Reply(h2, 500,
           ErrorBodyWith(<<"Failed to process AI response.">>,
                         "details_for_log", <<"str(response)">>))
       ELSE Reply(h2, 200, CorrectSubmissionType(loaded.d, h.submission_type))

\* ModelReturn without the try of line 932 and the candidates check of line
\* 949: whatever came back is parsed, as an empty text if there is none.
ModelReturn_ParsesAnyway(h, response) ==
  Normalize(h, IF response.raises \/ response.candidates = <<>>
               THEN Response(<<<<>>>>, response.block_reason) ELSE response)

\* Lines 932-945 and on: the model call returns or raises.
ModelReturn(h, response) ==
  IF response.raises THEN
    Reply(h, 500, ErrorBodyWith(<<"AI model API call failed.">>,
                                "details_for_log", <<response.block_reason>>))
  ELSE Normalize(h, response)

\* ------------------------------------------------------------ prompt assembly
\* A template is a sequence of lexemes: literal text, or a replacement
\* field "{name}", or the positional field "{}".
SuppliedFields ==
  {"{Book}", "{learnsheet}", "{grade_level}", "{submission_type}", "{essay_content}",
   "{standard_answer_if_any}", "{scoring_instructions_if_any}",
   "{json_format_example_str}", "{current_lesson_standard_answers_json}"}
ReplacementFields == SuppliedFields \cup {"{teacher_name}", "{}"}

FullTemplate ==
  <<"Grade:", "{grade_level}", "{submission_type}", "{Book}", "{learnsheet}",
    "{essay_content}", "{standard_answer_if_any}", "{scoring_instructions_if_any}",
    "{current_lesson_standard_answers_json}", "{json_format_example_str}">>
MissingKeyTemplate == <<"{essay_content}", "{teacher_name}">>
PositionalTemplate == <<"{essay_content}", "{}", "{teacher_name}">>

\* What the storage call for the template does.
TemplateOutcomes ==
  {[kind |-> "absent", text |-> <<>>], [kind |-> "raises", text |-> <<>>],
   [kind |-> "text", text |-> <<>>],
   [kind |-> "text", text |-> FullTemplate],
   [kind |-> "text", text |-> MissingKeyTemplate],
   [kind |-> "text", text |-> PositionalTemplate]}

\* get_prompt_from_gcs answering from a copy of the template taken when
\* the process started, whatever the bucket holds now.
get_prompt_from_gcs_StartupCopy(outcome) == Str(FullTemplate)

\* get_prompt_from_gcs (lines 123-138): None when the blob is absent or
\* the storage call raises, else the text.
get_prompt_from_gcs(outcome) ==
  IF outcome.kind = "text" THEN Str(outcome.text) ELSE None

\* FieldValue with Book and learnsheet given for every category.
FieldValue_UnconditionalKeys(h, field) ==
  LET st == h.submission_type
  IN CASE field = "{Book}" -> IF Truthy(h.bookrange) THEN ToStr(h.bookrange) ELSE <<>>
       [] field = "{learnsheet}" -> IF Truthy(h.learnsheets) THEN ToStr(h.learnsheets) ELSE <<>>
       [] field = "{grade_level}" -> ToStr(h.grade_level)
       [] field = "{submission_type}" -> ToStr(st)
       [] field = "{essay_content}" -> h.essay_content
       [] field = "{standard_answer_if_any}" ->
            IF st = Str(<<"quiz">>) THEN h.processed_standard_answer ELSE <<>>
       [] field = "{scoring_instructions_if_any}" ->
            IF st = Str(<<"quiz">>) THEN ToStr(h.scoring_instructions) ELSE <<>>
       [] field = "{json_format_example_str}" -> get_json_format_example(st)
       [] field = "{current_lesson_standard_answers_json}" -> h.standard_answers_json_str

\* The keyword arguments of base_prompt_text.format (lines 887-896).
FieldValue(h, field) ==
  LET st == h.submission_type
  IN CASE field = "{Book}" ->
            IF st = Str(<<"reading_writing">>) THEN ToStr(h.bookrange) ELSE <<>>
       [] field = "{learnsheet}" ->
            IF st = Str(<<"learning_sheet">>) THEN ToStr(h.learnsheets) ELSE <<>>
       [] field = "{grade_level}" -> ToStr(h.grade_level)
       [] field = "{submission_type}" -> ToStr(st)
       [] field = "{essay_content}" -> h.essay_content
       [] field = "{standard_answer_if_any}" ->
            IF st = Str(<<"quiz">>) THEN h.processed_standard_answer ELSE <<>>
       [] field = "{scoring_instructions_if_any}" ->
            IF st = Str(<<"quiz">>) THEN ToStr(h.scoring_instructions) ELSE <<>>
       [] field = "{json_format_example_str}" -> get_json_format_example(st)
       [] field = "{current_lesson_standard_answers_json}" -> h.standard_answers_json_str

\* str.format: the first field that is not supplied raises, KeyError for
\* a name and IndexError for a positional field.
FormatError(template) ==
  LET bad == {i \in 1..Len(template) :
                template[i] \in ReplacementFields \ SuppliedFields}
  IN IF bad = {} THEN ""
     ELSE IF template[SetMin(bad)] = "{}" THEN "IndexError" ELSE "KeyError"

RECURSIVE Format(_, _)
Format(h, template) ==
  IF template = <<>> THEN <<>>
  ELSE (IF Head(template) \in SuppliedFields THEN FieldValue(h, Head(template))
        ELSE <<Head(template)>>) \o Format(h, Tail(template))

PromptPath(h) == <<"ai_english_prompt/", PromptFileName(h.submission_type)>>

\* TemplateReturn filling the template leniently: a field that is not
\* supplied is left as it is instead of raising.
TemplateReturn_LenientFormat(h, outcome) ==
  LET base_prompt_text == get_prompt_from_gcs(outcome)
  IN IF ~Truthy(base_prompt_text) THEN
       Reply(h, 500, ErrorBody(<<"Failed to load prompt template for ">>
                               \o ToStr(h.submission_type) \o <<" from gs://">> \o PromptPath(h)))
     ELSE
       LET final_prompt == Format(h, base_prompt_text.s)
       IN Goes([h EXCEPT !.final_prompt = final_prompt,
                         !.contents_for_gemini =
                            <<Part_from_text(final_prompt)>> \o h.contents_for_gemini],
               "model")

\* TemplateReturn answering a template it cannot use with 400.
TemplateReturn_Rejects(h, outcome) ==
  LET base_prompt_text == get_prompt_from_gcs(outcome)
  IN IF ~Truthy(base_prompt_text) \/ FormatError(base_prompt_text.s) # "" THEN
       Reply(h, 400, ErrorBody(<<"Failed to load prompt template for ">>
                               \o ToStr(h.submission_type) \o <<" from gs://">> \o PromptPath(h)))
     ELSE
       LET final_prompt == Format(h, base_prompt_text.s)
       IN Goes([h EXCEPT !.final_prompt = final_prompt,
                         !.contents_for_gemini =
                            <<Part_from_text(final_prompt)>> \o h.contents_for_gemini],
               "model")

\* TemplateReturn putting the filled prompt last among the segments.
TemplateReturn_AppendsPrompt(h, outcome) ==
  LET base_prompt_text == get_prompt_from_gcs(outcome)
  IN IF ~Truthy(base_prompt_text) THEN
       Reply(h, 500, ErrorBody(<<"Failed to load prompt template for ">>
                               \o ToStr(h.submission_type) \o <<" from gs://">> \o PromptPath(h)))
     ELSE IF FormatError(base_prompt_text.s) = "KeyError" THEN
       Reply(h, 500, ErrorBody(<<"Prompt template formatting error: Missing key ">>))
     ELSE IF FormatError(base_prompt_text.s) # "" THEN
       InternalError(h, FormatError(base_prompt_text.s))
     ELSE
       LET final_prompt == Format(h, base_prompt_text.s)
       IN Goes([h EXCEPT !.final_prompt = final_prompt,
                         !.contents_for_gemini =
                            Append(h.contents_for_gemini, Part_from_text(final_prompt))],
               "model")

\* Lines 519-907: the template fetch returns; the prompt is filled and
\* put first in the segment list.
TemplateReturn(h, outcome) ==
  LET base_prompt_text == get_prompt_from_gcs(outcome)
  IN IF ~Truthy(base_prompt_text) THEN
       Reply(h, 500, ErrorBody(<<"Failed to load prompt template for ">>
                               \o ToStr(h.submission_type) \o <<" from gs://">> \o PromptPath(h)))
     ELSE IF FormatError(base_prompt_text.s) = "KeyError" THEN
       Reply(h, 500, ErrorBody(<<"Prompt template formatting error: Missing key ">>))
     ELSE IF FormatError(base_prompt_text.s) # "" THEN
       InternalError(h, FormatError(base_prompt_text.s))
     ELSE
       LET final_prompt == Format(h, base_prompt_text.s)
       IN Goes([h EXCEPT !.final_prompt = final_prompt,
                         !.contents_for_gemini =
                            <<Part_from_text(final_prompt)>> \o h.contents_for_gemini],
               "model")

\* Lines 505-519: the template of the category is chosen.
StartTemplate(h) ==
  IF PromptFileName(h.submission_type) = "" THEN
    Reply(h, 400, ErrorBody(<<"Unsupported submission type: ">> \o ToStr(h.submission_type)))
  ELSE Goes(h, "template")

\* ------------------------------------------------------------ reference loader
\* answer_file_map.get(f"{grade_level}{worksheet_category}") of
\* get_standard_answer_for_lesson_from_gcs; <<>> stands for None.
LessonAnswerFile(grade_level, worksheet_category) ==
  IF ToStr(grade_level) \in {<<"grade7">>, <<"grade8">>, <<"grade9">>}
     /\ ToStr(worksheet_category) \in {<<"full_english_answers">>, <<"differentiated_answers">>}
  THEN ToStr(worksheet_category) \o <<"(">> \o ToStr(grade_level) \o <<").txt">>
  ELSE <<>>

\* answer_file_map.get(f"{grade_level}讀寫習作參考答案") of
\* get_standard_answer_for_reading_writing_from_gcs
ReadingWritingAnswerFile(grade_level) ==
  IF ToStr(grade_level) \in {<<"grade7">>, <<"grade8">>, <<"grade9">>}
  THEN <<"workbook_answers(">> \o ToStr(grade_level) \o <<").txt">>
  ELSE <<>>

\* What the storage call for an answer file does: the blob is absent, the
\* call raises, the text is no JSON, the JSON is no object, the object
\* lacks the key (or holds an empty value for it), or the key is found.
ReferenceOutcomes == {"absent", "raises", "not_json", "not_object", "no_key", "found"}

\* The return value of either loader after its storage call (lines
\* 171-196, 227-253): the data of the key, or <<>> for None.
LoadedAnswers(outcome, key) ==
  IF outcome = "found" THEN <<"answers_of">> \o ToStr(key) ELSE <<>>

\* ReferenceReturn answering 500 when the loader found nothing.
ReferenceReturn_FailsWhenMissing(h, outcome) ==
  IF outcome # "found"
  THEN Reply(h, 500, ErrorBody(<<"Failed to load standard answers">>))
  ELSE StartTemplate([h EXCEPT !.standard_answers_json_str = <<"answers_of">>])

\* Lines 482-486, 497-501: json.dumps of the data, "" when None.
ReferenceReturn(h, outcome) ==
  LET key == IF h.submission_type = Str(<<"learning_sheet">>) THEN h.learnsheets
             ELSE h.bookrange
      standard_answers_data == LoadedAnswers(outcome, key)
  IN StartTemplate([h EXCEPT !.standard_answers_json_str = standard_answers_data])

\* Lines 470-501: whether a loader is called, and whether it gets as far
\* as its storage call.
StartReference(h) ==
  IF h.submission_type = Str(<<"learning_sheet">>)
     /\ Truthy(h.learnsheets) /\ Truthy(h.worksheet_category) THEN
    LET target_filename == LessonAnswerFile(h.grade_level, h.worksheet_category)
    IN IF target_filename = <<>> THEN StartTemplate(h)
       ELSE Goes([h EXCEPT !.target_file = <<"ai_english_file/">> \o target_filename],
                 "reference")
  ELSE IF h.submission_type = Str(<<"reading_writing">>) /\ Truthy(h.bookrange) THEN
    LET target_filename == ReadingWritingAnswerFile(h.grade_level)
    IN IF target_filename = <<>> THEN StartTemplate(h)
       ELSE Goes([h EXCEPT !.target_file = <<"ai_english_file/">> \o target_filename],
                 "reference")
  ELSE StartTemplate(h)

\* ------------------------------------------------------------ content extraction
\* What the Vision call does for one image: a transcription, no
\* annotation, a whitespace-only transcription, a transcription that
\* itself holds the text OCR_ERROR:, a response with error.message set,
\* or an exception.
VisionOutcomes ==
  {"text", "no_annotations", "blank_text", "sentinel_text", "error_message", "raises"}

\* What seek and read do on the uploaded file in one loop iteration.
FileOutcomes == {"ok", "seek_raises", "read_raises"}

\* perform_ocr (lines 105-120): the returned string, and whether the
\* Vision client was called.
perform_ocr(file, vision) ==
  IF ~file.named THEN
    [text |-> <<"OCR_ERROR:", " No image file provided.">>, called |-> FALSE]
  ELSE
    [called |-> TRUE,
     text |-> CASE vision = "text" -> <<"text_of_", IdLexeme[file.id]>>
                [] vision = "no_annotations" -> <<>>
                [] vision = "blank_text" -> <<" ", "\n">>
                [] vision = "sentinel_text" -> <<"text_of_", IdLexeme[file.id], "OCR_ERROR:">>
                [] vision = "error_message" -> <<"OCR_ERROR:", " str(e)">>
                [] vision = "raises" -> <<"OCR_ERROR:", " str(e)">>]

\* Lines 351-356 and their copies: the transcription is kept unless it
\* holds the sentinel or is blank.
KeepTranscription(ocr_results, ocr_text) ==
  IF Contains(ocr_text, "OCR_ERROR:") THEN ocr_results
  ELSE IF Strip(ocr_text) # <<>> THEN Append(ocr_results, ocr_text)
  ELSE ocr_results

\* Lines 437-468, first half: the answer key of a quiz.
StartStandardAnswer(h) ==
  IF h.submission_type = Str(<<"quiz">>) THEN
    IF Truthy(h.standard_answer_text) THEN
      IF h.standard_answer_text.t # "str"
      THEN InternalError(h, "TypeError")     \* processed_standard_answer[:100], line 468
      ELSE StartReference([h EXCEPT !.processed_standard_answer = h.standard_answer_text.s])
    ELSE IF h.standard_answer_image_files # <<>> THEN
      Goes([h EXCEPT !.k = 1,
                     !.contents_for_gemini =
                        Append(@, Part_from_text(<<"standard_answer_images_intro">>))],
           "ocr_answer")
    ELSE StartReference(h)
  ELSE StartReference(h)

\* AnswerImageReturn waiting for an image it could not read instead of
\* going on without it.
AnswerImageReturn_WaitsForImage(h, vision, io) ==
  IF io = "seek_raises" THEN InternalError(h, "seek")
  ELSE IF io = "read_raises" THEN Goes(h, "waiting")
  ELSE
    LET file == h.standard_answer_image_files[h.k]
        results == KeepTranscription(h.ocr_standard_answer_results,
                                     perform_ocr(file, vision).text)
        h2 == [h EXCEPT !.ocr_standard_answer_results = results,
                        !.contents_for_gemini = Append(@, Part_from_data(file))]
    IN IF h.k < Len(h.standard_answer_image_files)
       THEN Goes([h2 EXCEPT !.k = h.k + 1], "ocr_answer")
       ELSE StartReference(
              [h2 EXCEPT !.processed_standard_answer =
                 IF results # <<>> THEN Join(<<"\n", "\n">>, results)
                 ELSE <<"standard_answer_ocr_failed_placeholder">>])

\* Lines 445-468: one answer-key image, and after the last one the
\* answer key itself.  A failed read is only logged.
AnswerImageReturn(h, vision, io) ==
  IF io = "seek_raises" THEN InternalError(h, "seek")
  ELSE
    LET file == h.standard_answer_image_files[h.k]
        results == KeepTranscription(h.ocr_standard_answer_results,
                                     perform_ocr(file, vision).text)
        h2 == [h EXCEPT !.ocr_standard_answer_results = results,
                        !.contents_for_gemini =
                           IF io = "read_raises" THEN @ ELSE Append(@, Part_from_data(file))]
    IN IF h.k < Len(h.standard_answer_image_files)
       THEN Goes([h2 EXCEPT !.k = h.k + 1], "ocr_answer")
       ELSE StartReference(
              [h2 EXCEPT !.processed_standard_answer =
                 IF results # <<>> THEN Join(<<"\n", "\n">>, results)
                 ELSE <<"standard_answer_ocr_failed_placeholder">>])

\* Lines 433-435
CheckContent(h) ==
  IF Strip(h.essay_content) = <<>> /\ ~Truthy(h.text_input) /\ h.contents_for_gemini = <<>>
  THEN Reply(h, 400, ErrorBody(<<"Essay content is empty after processing input">>))
  ELSE StartStandardAnswer(h)

\* The files of the category's own file field.
StudentFiles(h) ==
  IF h.submission_type = Str(<<"learning_sheet">>) THEN h.learning_sheet_files
  ELSE IF h.submission_type = Str(<<"reading_writing">>) THEN h.reading_writing_files
  ELSE h.essay_image_files

\* Lines 348-372, 380-400, 407-427: one student image, and after the
\* last one the extracted content.
StudentImageReturn(h, vision, io) ==
  IF io = "seek_raises" THEN InternalError(h, "seek")
  ELSE
    LET file == StudentFiles(h)[h.k]
        results == KeepTranscription(h.ocr_results, perform_ocr(file, vision).text)
        h2 == [h EXCEPT !.ocr_results = results,
                        !.contents_for_gemini = Append(@, Part_from_data(file))]
        kind == IF h.submission_type = Str(<<"learning_sheet">>) THEN "learning sheet"
                ELSE IF h.submission_type = Str(<<"reading_writing">>)
                     THEN "reading/writing worksheet"
                     ELSE "student essay image"
    IN IF io = "read_raises" THEN
         Reply([h EXCEPT !.ocr_results = results], 400,
               ErrorBody(<<"Failed to read ", kind, " file ", IdLexeme[file.id], " for Gemini">>))
       ELSE IF h.k < Len(StudentFiles(h)) THEN Goes([h2 EXCEPT !.k = h.k + 1], "ocr_student")
       ELSE IF results = <<>> /\ (h.submission_type.s[1] \notin TextEligible
                                  \/ ~Truthy(h.text_input)) THEN
         Reply(h2, 400, ErrorBody(<<"OCR failed or returned empty for all provided ", kind>>))
       ELSE
         \* line 372: the placeholder is for the case ocr_results is empty,
         \* which line 369 has already answered
         CheckContent([h2 EXCEPT !.essay_content =
                         IF results # <<>> THEN Join(<<"\n", "\n">>, results)
                         ELSE <<"essay_ocr_failed_placeholder">>])

\* StartExtraction taking `text` for every category, the two image-only ones
\* included.
StartExtraction_TextForAll(h) ==
  IF Truthy(h.text_input) /\ h.text_input.t = "str" /\ PromptFileName(h.submission_type) # ""
  THEN CheckContent([h EXCEPT !.essay_content = h.text_input.s])
  ELSE Reply(h, 400, ErrorBody(<<"Unsupported submission type for content processing: ">>
                               \o ToStr(h.submission_type)))

\* StartExtraction without the final else of the text-eligible branch (line
\* 374): a request with neither text nor image goes on with empty content.
StartExtraction_NoContentCheck(h) ==
  IF h.submission_type \in {Str(<<"paragraph">>), Str(<<"quiz">>)}
  THEN CheckContent([h EXCEPT !.essay_content = ToStr(h.text_input)])
  ELSE Reply(h, 400, ErrorBody(<<"Unsupported submission type for content processing: ">>
                               \o ToStr(h.submission_type)))

\* StartExtraction with the two tests of lines 342 and 344 in the other
\* order: uploaded essay images are transcribed even when text is given.
StartExtraction_ImagesFirst(h) ==
  LET st == h.submission_type
      intro(lexeme) == [h EXCEPT !.k = 1,
                                 !.contents_for_gemini = <<Part_from_text(<<lexeme>>)>>]
  IN
  IF st \in {Str(<<"paragraph">>), Str(<<"quiz">>)} THEN
    IF h.essay_image_files # <<>> THEN Goes(intro("essay_images_intro"), "ocr_student")
    ELSE IF Truthy(h.text_input) /\ h.text_input.t = "str"
    THEN CheckContent([h EXCEPT !.essay_content = h.text_input.s])
    ELSE Reply(h, 400, ErrorBody(<<"For ">> \o ToStr(st)
                                 \o <<", text input or an essay image is required.">>))
  ELSE IF st = Str(<<"learning_sheet">>) /\ h.learning_sheet_files # <<>>
  THEN Goes(intro("learning_sheet_images_intro"), "ocr_student")
  ELSE IF st = Str(<<"reading_writing">>) /\ h.reading_writing_files # <<>>
  THEN Goes(intro("reading_writing_images_intro"), "ocr_student")
  ELSE Reply(h, 400, ErrorBody(<<"Unsupported submission type for content processing: ">>
                               \o ToStr(st)))

\* Lines 336-431: the student's content, from text or from the first image.
StartExtraction(h) ==
  LET st == h.submission_type
      intro(lexeme) == [h EXCEPT !.k = 1,
                                 !.contents_for_gemini = <<Part_from_text(<<lexeme>>)>>]
  IN
  IF st \in {Str(<<"paragraph">>), Str(<<"quiz">>)} THEN
    IF Truthy(h.text_input) THEN
      IF h.text_input.t # "str"
      THEN InternalError(h, "AttributeError")   \* essay_content.strip(), line 433
      ELSE CheckContent([h EXCEPT !.essay_content = h.text_input.s])
    ELSE IF h.essay_image_files # <<>> THEN Goes(intro("essay_images_intro"), "ocr_student")
    ELSE Reply(h, 400, ErrorBody(<<"For ">> \o ToStr(st)
                                 \o <<", text input or an essay image is required.">>))
  ELSE IF st = Str(<<"learning_sheet">>) THEN
    IF h.learning_sheet_files # <<>>
    THEN Goes(intro("learning_sheet_images_intro"), "ocr_student")
    ELSE Reply(h, 400, ErrorBody(<<"Learning sheet file is required for ">> \o ToStr(st)))
  ELSE IF st = Str(<<"reading_writing">>) THEN
    IF h.reading_writing_files # <<>>
    THEN Goes(intro("reading_writing_images_intro"), "ocr_student")
    ELSE Reply(h, 400, ErrorBody(<<"Reading/writing worksheet file is required for ">>
                                 \o ToStr(st)))
  ELSE Reply(h, 400, ErrorBody(<<"Unsupported submission type for content processing: ">>
                               \o ToStr(st)))

\* HandleRequest with line 331 checking submission_type only.
HandleRequest_GradeLevelUnchecked(req) ==
  LET parsed == ParseRequest(req)
      h == parsed.frame
  IN IF parsed.raised # "" THEN InternalError(h, parsed.raised)
     ELSE IF ~Truthy(h.submission_type) THEN
       Reply(h, 400,
             ErrorBody(<<"Missing submissionType or gradeLevel after parsing request">>))
     ELSE StartExtraction(h)

\* HandleRequest reading `text` from the form of a request of any other
\* content type as well.
HandleRequest_ReadsFormText(req) ==
  LET parsed == ParseRequest(req)
      h == IF req.content_type \in {"multipart/form-data", "application/json"}
           THEN parsed.frame
           ELSE [parsed.frame EXCEPT !.text_input = req.form["text"]]
  IN IF parsed.raised # "" THEN InternalError(h, parsed.raised)
     ELSE IF ~Truthy(h.submission_type) \/ ~Truthy(h.grade_level) THEN
       Reply(h, 400,
             ErrorBody(<<"Missing submissionType or gradeLevel after parsing request">>))
     ELSE StartExtraction(h)

\* Lines 277-332: the request is read and its two required fields checked.
HandleRequest(req) ==
  LET parsed == ParseRequest(req)
      h == parsed.frame
  IN IF parsed.raised # "" THEN InternalError(h, parsed.raised)
     ELSE IF ~Truthy(h.submission_type) \/ ~Truthy(h.grade_level) THEN
       Reply(h, 400,
             ErrorBody(<<"Missing submissionType or gradeLevel after parsing request">>))
     ELSE StartExtraction(h)

\* ------------------------------------------------------------ model outputs
ObjectTexts ==
  {<<"{", "}">>,
   <<"{", "score:", "1", ",", " ", "submissionType:", "quiz", "}">>,
   <<"{", "feedback:", "{", "score:", "1", "}", "}">>,
   <<"{", "feedback:", "q", "}", "FENCE", "q", "}">>,
   <<"{", "submissionType:", "null", "}">>,
   <<"{", "submissionType:", "quiz", ",", "submissionType:", "other", "}">>}
  \cup {<<"{", "submissionType:", c, "}">> : c \in StringLiterals}
NonObjectTexts == {<<"1">>, <<"null">>, <<"[]">>, <<"quiz">>, <<"q", "submissionType", "q">>}
InvalidTexts == {<<>>, <<"p">>, <<"{">>, <<"{", "score:", "1", ",", "}">>}
BodyTexts == ObjectTexts \cup NonObjectTexts \cup InvalidTexts

Prefixes == {<<>>, <<"p", " ">>, <<"FENCE_JSON", "{", "p">>,
             <<"FENCE_JSON", " ", "{", "}", "FENCE">>}
Suffixes == {<<>>, <<" ", "p">>, <<"}", "FENCE">>}
Fenced(pre, ws, body, suf) ==
  pre \o <<"FENCE_JSON">> \o ws \o body \o ws \o <<"FENCE">> \o suf

\* A text longer than the diagnostic limit.
LongProse == [i \in 1..(DetailLimit + 1) |-> "p"]

ResponseTexts ==
  BodyTexts
  \cup {pre \o body : pre \in Prefixes, body \in ObjectTexts}
  \cup {Fenced(pre, ws, body, suf) :
          pre \in Prefixes, ws \in {<<>>, <<"\n">>}, body \in BodyTexts, suf \in Suffixes}
  \cup {LongProse}

\* Ways a text reaches the handler: as one part, as two parts (cut after
\* the second lexeme) around a part without text, and in a first
\* candidate that another candidate follows.
AsParts(text) ==
  LET cut == IF Len(text) < 2 THEN Len(text) ELSE 2
  IN {<<<<TextPart(text)>>>>,
      <<<<TextPart(SubSeq(text, 1, cut)), NonTextPart,
          TextPart(SubSeq(text, cut + 1, Len(text)))>>>>,
      <<<<TextPart(text)>>, <<TextPart(<<"{", "score:", "1", "}">>)>>>>}

NormalizerResponses ==
  {Response(c, "") : c \in UNION {AsParts(t) : t \in ResponseTexts}}
  \cup {Response(<<<<>>>>, "")}

\* The outcomes of the model call that the whole pipeline is run against.
PipelineResponses ==
  {CallRaising(e) : e \in ApiErrors}
  \cup {Response(<<>>, "SAFETY"), Response(<<>>, "OTHER")}
  \cup {Response(<<<<TextPart(t)>>>>, "") :
          t \in {<<"{", "score:", "1", ",", " ", "submissionType:", "quiz", "}">>,
                 <<"{", "score:", "1", "}">>,
                 Fenced(<<"p", " ">>, <<"\n">>, <<"{", "submissionType:", "other", "}">>, <<" ", "p">>),
                 <<"[]">>,
                 <<"p">>}}

\* ------------------------------------------------------------ state
VARIABLES
  request,   \* the request being handled
  h,         \* the handler's frame: its program counter and locals
  http,      \* the HTTP response returned for the request
  response,  \* what the model call returned
  calls,     \* the external calls made for the request, in order, each
             \* with its argument and what the helper returned
  peer,      \* a second invocation of the handler, running at the same
             \* time: its own request, h, http, response and calls
  clients,   \* the module-level names vision_client, storage_client,
             \* gemini_model, tools_list: whether start-up defined each
  bucket     \* the prompt bucket: what storage holds under each template
             \* path

vars == <<request, h, http, response, calls, peer, clients, bucket>>

NoRequest == Request("", "", FormOf(None, None, None, NoOptionalFields), <<>>)
NoModelResponse == Response(<<>>, "")
Call(op, arg, ret) == [op |-> op, arg |-> arg, ret |-> ret]

\* An invocation that handles no request.
IdleHandler ==
  [request |-> NoRequest, h |-> InitialFrame, http |-> NoResponse,
   response |-> NoModelResponse, calls |-> <<>>]

\* Lines 36-51: start-up defines the handles in this order and stops at
\* the first exception, which is only printed.
Handles == <<"vision_client", "storage_client", "gemini_model", "tools_list">>
StartupOutcome(n) == [name \in {Handles[i] : i \in 1..Len(Handles)} |->
                        \E i \in 1..n : Handles[i] = name]
Initialised == StartupOutcome(Len(Handles))
StartupOutcomes == {StartupOutcome(n) : n \in 0..Len(Handles)}

\* What a call through a handle can do: a NameError when start-up left
\* the name undefined, which each helper's except turns into its failure.
VisionOutcomesOf(cl) == IF cl["vision_client"] THEN VisionOutcomes ELSE {"raises"}
ReferenceOutcomesOf(cl) == IF cl["storage_client"] THEN ReferenceOutcomes ELSE {"raises"}
TemplateOutcomesOf(cl) ==
  IF cl["storage_client"] THEN TemplateOutcomes ELSE {[kind |-> "raises", text |-> <<>>]}
\* ModelResponsesOf with generate_content called without tools when
\* tools_list is undefined.
ModelResponsesOf_ToolsOptional(cl, responses) ==
  IF cl["gemini_model"] THEN responses ELSE {CallRaises}

ModelResponsesOf(cl, responses) ==
  IF cl["gemini_model"] /\ cl["tools_list"] THEN responses ELSE {CallRaises}

\* The bucket with the full template under each of the four paths.
TemplatePaths == {PromptFileName(Str(<<c>>)) : c \in Categories}
InitialBucket == [path \in TemplatePaths |-> [kind |-> "text", text |-> FullTemplate]]

\* Start-up succeeded: a name it left undefined makes every call through
\* it raise, an outcome the calls have in any case.
Init ==
  /\ request = NoRequest
  /\ h = InitialFrame
  /\ http = NoResponse
  /\ response = NoModelResponse
  /\ calls = <<>>
  /\ peer = IdleHandler
  /\ clients = Initialised
  /\ bucket = InitialBucket

\* A request arrives and is handled up to its first external call.
Receive(requests) ==
  /\ h.pc = "idle"
  /\ \E req \in requests :
       LET r == HandleRequest(req)
       IN /\ request' = req
          /\ h' = r.frame
          /\ http' = r.http
  /\ response' = NoModelResponse
  /\ calls' = <<>>
  /\ UNCHANGED <<peer, clients, bucket>>

\* perform_ocr and the read of one student image.
OcrStudentImage ==
  /\ h.pc = "ocr_student"
  /\ \E vision \in VisionOutcomesOf(clients), io \in FileOutcomes :
       LET r == StudentImageReturn(h, vision, io)
           file == StudentFiles(h)[h.k]
       IN /\ h' = r.frame
          /\ http' = r.http
          /\ calls' = IF io # "seek_raises" /\ perform_ocr(file, vision).called
                      THEN Append(calls, Call("ocr", <<IdLexeme[file.id]>>,
                                              Str(perform_ocr(file, vision).text)))
                      ELSE calls
  /\ UNCHANGED <<request, response, peer, clients, bucket>>

\* perform_ocr and the read of one answer-key image.
OcrAnswerImage ==
  /\ h.pc = "ocr_answer"
  /\ \E vision \in VisionOutcomesOf(clients), io \in FileOutcomes :
       LET r == AnswerImageReturn(h, vision, io)
           file == h.standard_answer_image_files[h.k]
       IN /\ h' = r.frame
          /\ http' = r.http
          /\ calls' = IF io # "seek_raises" /\ perform_ocr(file, vision).called
                      THEN Append(calls, Call("ocr", <<IdLexeme[file.id]>>,
                                              Str(perform_ocr(file, vision).text)))
                      ELSE calls
  /\ UNCHANGED <<request, response, peer, clients, bucket>>

\* The storage call of a reference loader.
FetchReference ==
  /\ h.pc = "reference"
  /\ \E outcome \in ReferenceOutcomesOf(clients) :
       LET r == ReferenceReturn(h, outcome)
           key == IF h.submission_type = Str(<<"learning_sheet">>) THEN h.learnsheets
                  ELSE h.bookrange
           data == LoadedAnswers(outcome, key)
       IN /\ h' = r.frame
          /\ http' = r.http
          /\ calls' = Append(calls, Call("reference", h.target_file,
                                         IF data = <<>> THEN None ELSE Str(data)))
  /\ UNCHANGED <<request, response, peer, clients, bucket>>

\* The storage call of get_prompt_from_gcs; outcomes is what storage may
\* answer at that moment.
FetchTemplate(outcomes) ==
  /\ h.pc = "template"
  /\ \E outcome \in outcomes :
       LET r == TemplateReturn(h, outcome)
       IN /\ h' = r.frame
          /\ http' = r.http
          /\ calls' = Append(calls, Call("template", PromptPath(h),
                                         get_prompt_from_gcs(outcome)))
  /\ UNCHANGED <<request, response, peer, clients, bucket>>

\* CallModel calling generate_content a second time when the first call
\* raised.
CallModel_RetriesOnFailure(responses) ==
  /\ h.pc = "model"
  /\ \E res \in ModelResponsesOf(clients, responses) :
       LET r == ModelReturn(h, res)
       IN /\ response' = res
          /\ h' = r.frame
          /\ http' = r.http
          /\ calls' = IF res.raises
                      THEN calls \o <<Call("model", <<>>, None), Call("model", <<>>, None)>>
                      ELSE Append(calls, Call("model", <<>>, None))
  /\ UNCHANGED <<request, peer, clients, bucket>>

\* gemini_model.generate_content and the normalization of its result.
CallModel(responses) ==
  /\ h.pc = "model"
  /\ \E res \in ModelResponsesOf(clients, responses) :
       LET r == ModelReturn(h, res)
       IN /\ response' = res
          /\ h' = r.frame
          /\ http' = r.http
  /\ calls' = Append(calls, Call("model", <<>>, None))
  /\ UNCHANGED <<request, peer, clients, bucket>>

\* Respond with the locals of lines 278-289 kept at module level: the end
\* of one request clears them for every invocation.
Respond_ClearsEveryInvocation ==
  /\ h.pc = "done"
  /\ request' = NoRequest
  /\ h' = InitialFrame
  /\ http' = NoResponse
  /\ response' = NoModelResponse
  /\ calls' = <<>>
  /\ peer' = IdleHandler
  /\ UNCHANGED <<clients, bucket>>

\* The response is sent; nothing of the request is kept.
Respond ==
  /\ h.pc = "done"
  /\ request' = NoRequest
  /\ h' = InitialFrame
  /\ http' = NoResponse
  /\ response' = NoModelResponse
  /\ calls' = <<>>
  /\ UNCHANGED <<peer, clients, bucket>>

Next ==
  \/ Receive(AllRequests)
  \/ OcrStudentImage
  \/ OcrAnswerImage
  \/ FetchReference
  \/ FetchTemplate(TemplateOutcomesOf(clients))
  \/ CallModel(PipelineResponses)
  \/ Respond

Spec == Init /\ [][Next]_vars

\* ------------------------------------------------------------ the normalizer's specification
\* One request per category and content type that reaches the model call,
\* run against every model output of NormalizerResponses.
OneUpload(field) == [i \in {1} |-> [field |-> field, named |-> TRUE]]
NormalizerRequests ==
  {Request(ct, "form",
           FormOf(Str(<<c>>), Str(<<"grade7">>), Str(<<"essay">>), NoOptionalFields), <<>>) :
     ct \in {"multipart/form-data"}, c \in TextEligible}
  \cup {Request("application/json", "object",
                FormOf(Str(<<c>>), Str(<<"grade7">>), Str(<<"essay">>), NoOptionalFields), <<>>) :
          c \in TextEligible}
  \cup {Request("multipart/form-data", "form",
                FormOf(Str(<<"learning_sheet">>), Str(<<"grade7">>), None, NoOptionalFields),
                OneUpload(2)),
        Request("multipart/form-data", "form",
                FormOf(Str(<<"reading_writing">>), Str(<<"grade7">>), None, NoOptionalFields),
                OneUpload(3))}

NextNormalizer ==
  \/ Receive(NormalizerRequests)
  \/ OcrStudentImage
  \/ FetchTemplate(TemplateOutcomesOf(clients))
  \/ CallModel(NormalizerResponses)
  \/ Respond

SpecNormalizer == Init /\ [][NextNormalizer]_vars

\* ------------------------------------------------------------ two requests at a time
\* The server runs grade_writing for several requests at once, each
\* invocation with its own locals (lines 278-289) and its own request
\* object; the steps below are those of the second invocation.
AfterReceive(req) ==
  LET r == HandleRequest(req)
  IN [request |-> req, h |-> r.frame, http |-> r.http,
      response |-> NoModelResponse, calls |-> <<>>]

AfterOcr(p, file, r, vision, io) ==
  [p EXCEPT !.h = r.frame, !.http = r.http,
            !.calls = IF io # "seek_raises" /\ perform_ocr(file, vision).called
                      THEN Append(@, Call("ocr", <<IdLexeme[file.id]>>,
                                          Str(perform_ocr(file, vision).text)))
                      ELSE @]

AfterOcrStudent(p, vision, io) ==
  AfterOcr(p, StudentFiles(p.h)[p.h.k], StudentImageReturn(p.h, vision, io), vision, io)

AfterOcrAnswer(p, vision, io) ==
  AfterOcr(p, p.h.standard_answer_image_files[p.h.k],
           AnswerImageReturn(p.h, vision, io), vision, io)

AfterReference(p, outcome) ==
  LET r == ReferenceReturn(p.h, outcome)
      key == IF p.h.submission_type = Str(<<"learning_sheet">>) THEN p.h.learnsheets
             ELSE p.h.bookrange
      data == LoadedAnswers(outcome, key)
  IN [p EXCEPT !.h = r.frame, !.http = r.http,
               !.calls = Append(@, Call("reference", p.h.target_file,
                                        IF data = <<>> THEN None ELSE Str(data)))]

AfterTemplate(p, outcome) ==
  LET r == TemplateReturn(p.h, outcome)
  IN [p EXCEPT !.h = r.frame, !.http = r.http,
               !.calls = Append(@, Call("template", PromptPath(p.h),
                                        get_prompt_from_gcs(outcome)))]

AfterModel(p, res) ==
  LET r == ModelReturn(p.h, res)
  IN [p EXCEPT !.h = r.frame, !.http = r.http, !.response = res,
               !.calls = Append(@, Call("model", <<>>, None))]

PeerReceive(requests) ==
  /\ peer.h.pc = "idle"
  /\ \E req \in requests : peer' = AfterReceive(req)
  /\ UNCHANGED <<request, h, http, response, calls, clients, bucket>>

PeerOcrStudentImage ==
  /\ peer.h.pc = "ocr_student"
  /\ \E vision \in VisionOutcomesOf(clients), io \in FileOutcomes :
       peer' = AfterOcrStudent(peer, vision, io)
  /\ UNCHANGED <<request, h, http, response, calls, clients, bucket>>

PeerOcrAnswerImage ==
  /\ peer.h.pc = "ocr_answer"
  /\ \E vision \in VisionOutcomesOf(clients), io \in FileOutcomes :
       peer' = AfterOcrAnswer(peer, vision, io)
  /\ UNCHANGED <<request, h, http, response, calls, clients, bucket>>

PeerFetchReference ==
  /\ peer.h.pc = "reference"
  /\ \E outcome \in ReferenceOutcomesOf(clients) : peer' = AfterReference(peer, outcome)
  /\ UNCHANGED <<request, h, http, response, calls, clients, bucket>>

PeerFetchTemplate ==
  /\ peer.h.pc = "template"
  /\ \E outcome \in TemplateOutcomesOf(clients) : peer' = AfterTemplate(peer, outcome)
  /\ UNCHANGED <<request, h, http, response, calls, clients, bucket>>

PeerCallModel(responses) ==
  /\ peer.h.pc = "model"
  /\ \E res \in ModelResponsesOf(clients, responses) : peer' = AfterModel(peer, res)
  /\ UNCHANGED <<request, h, http, response, calls, clients, bucket>>

PeerRespond ==
  /\ peer.h.pc = "done"
  /\ peer' = IdleHandler
  /\ UNCHANGED <<request, h, http, response, calls, clients, bucket>>

\* Requests with one upload, the file numbered id: an essay image, the
\* answer-key image of a quiz given as text, and a learning sheet.
UploadOf(id, field) == [i \in {id} |-> [field |-> field, named |-> TRUE]]
ImageRequests(id) ==
  {Request("multipart/form-data", "form",
           FormOf(Str(<<"paragraph">>), Str(<<"grade7">>), None, NoOptionalFields),
           UploadOf(id, 1)),
   Request("multipart/form-data", "form",
           FormOf(Str(<<"quiz">>), Str(<<"grade7">>), Str(<<"essay">>), UnmappedOptionalFields),
           UploadOf(id, 4)),
   Request("multipart/form-data", "form",
           FormOf(Str(<<"learning_sheet">>), Str(<<"grade7">>), None, AllOptionalFields),
           UploadOf(id, 2))}

\* The requests of the first invocation carry file 1, those of the second
\* file 3.
OwnImageRequests == ImageRequests(1)
PeerImageRequests == ImageRequests(3)

\* The model outcomes the two invocations are run against.
ConcurrentResponses ==
  {CallRaises, Response(<<>>, "SAFETY"),
   Response(<<<<TextPart(<<"{", "score:", "1", "}">>)>>>>, ""),
   Response(<<<<TextPart(<<"p">>)>>>>, "")}

\* Start-up may have failed at any of its steps.
InitConcurrent ==
  /\ request = NoRequest
  /\ h = InitialFrame
  /\ http = NoResponse
  /\ response = NoModelResponse
  /\ calls = <<>>
  /\ peer = IdleHandler
  /\ clients \in StartupOutcomes
  /\ bucket = InitialBucket

NextConcurrent ==
  \/ Receive(OwnImageRequests)
  \/ OcrStudentImage
  \/ OcrAnswerImage
  \/ FetchReference
  \/ FetchTemplate(TemplateOutcomesOf(clients))
  \/ CallModel(ConcurrentResponses)
  \/ Respond
  \/ PeerReceive(PeerImageRequests)
  \/ PeerOcrStudentImage
  \/ PeerOcrAnswerImage
  \/ PeerFetchReference
  \/ PeerFetchTemplate
  \/ PeerCallModel(ConcurrentResponses)
  \/ PeerRespond

SpecConcurrent == InitConcurrent /\ [][NextConcurrent]_vars

\* ------------------------------------------------------------ the bucket changes
\* The templates are objects of a bucket that is edited outside the
\* program, at any time; a fetch reads what the bucket holds under the
\* path at that moment (lines 126-134).
RevisedTemplate == <<"Revised:", "{grade_level}", "{essay_content}">>
BucketContents ==
  {[kind |-> "absent", text |-> <<>>],
   [kind |-> "text", text |-> FullTemplate],
   [kind |-> "text", text |-> RevisedTemplate]}

StoredTemplate(cl, path) ==
  IF cl["storage_client"] THEN {bucket[path]} ELSE {[kind |-> "raises", text |-> <<>>]}

\* An object of the bucket is replaced or deleted.
ChangeTemplate ==
  /\ \E path \in TemplatePaths :
       \E content \in BucketContents \ {bucket[path]} :
         bucket' = [bucket EXCEPT ![path] = content]
  /\ UNCHANGED <<request, h, http, response, calls, peer, clients>>

NextStorage ==
  \/ Receive(NormalizerRequests)
  \/ OcrStudentImage
  \/ FetchTemplate(StoredTemplate(clients, PromptFileName(h.submission_type)))
  \/ CallModel(ConcurrentResponses)
  \/ Respond
  \/ ChangeTemplate

SpecStorage == Init /\ [][NextStorage]_vars

\* ------------------------------------------------------------ every call returns
\* A quiz with MaxFiles files shared in every way between its essay images
\* and its answer-key images, a learning sheet and a workbook page with the
\* fields of their reference lookup, and JSON requests with text, one of
\* them with a number for text and one malformed.
LiveRequests ==
  {Request("multipart/form-data", "form",
           FormOf(Str(<<"quiz">>), Str(<<"grade7">>), None, NoOptionalFields), u) :
     u \in {v \in Uploads(MaxFiles) : \A i \in 1..MaxFiles : v[i].field \in {1, 4} /\ v[i].named}}
  \cup {Request("multipart/form-data", "form",
                FormOf(Str(<<"learning_sheet">>), Str(<<"grade7">>), None, AllOptionalFields),
                OneUpload(2)),
        Request("multipart/form-data", "form",
                FormOf(Str(<<"reading_writing">>), Str(<<"grade7">>), None, AllOptionalFields),
                OneUpload(3))}
  \cup {Request("application/json", "object",
                FormOf(Str(<<"paragraph">>), Str(<<"grade7">>), text, NoOptionalFields), <<>>) :
          text \in {Str(<<"essay">>), Number}}
  \cup {Request("application/json", "invalid",
                FormOf(None, None, None, NoOptionalFields), <<>>)}

NextLive ==
  \/ Receive(LiveRequests)
  \/ OcrStudentImage
  \/ OcrAnswerImage
  \/ FetchReference
  \/ FetchTemplate(TemplateOutcomesOf(clients))
  \/ CallModel(PipelineResponses)
  \/ Respond

\* Each external call the handler waits on returns or raises in the end:
\* perform_ocr and the file read, the storage calls and generate_content
\* all block the handling thread until then.
SpecLive ==
  /\ Init /\ [][NextLive]_vars
  /\ WF_vars(OcrStudentImage)
  /\ WF_vars(OcrAnswerImage)
  /\ WF_vars(FetchReference)
  /\ WF_vars(FetchTemplate(TemplateOutcomesOf(clients)))
  /\ WF_vars(CallModel(PipelineResponses))

\* ------------------------------------------------------------ start-up failed
\* Lines 37-51: an exception at any statement of the start-up try is
\* printed and the module goes on to define the route; the names from
\* that statement on stay undefined for the life of the process.
InitStartupFailed ==
  /\ request = NoRequest
  /\ h = InitialFrame
  /\ http = NoResponse
  /\ response = NoModelResponse
  /\ calls = <<>>
  /\ peer = IdleHandler
  /\ clients \in StartupOutcomes \ {Initialised}
  /\ bucket = InitialBucket

SpecStartupFailed == InitStartupFailed /\ [][Next]_vars

\* ============================================================ properties
Done == h.pc = "done"
RequestField(name) == request.form[name]
RequestCategory == RequestField("submissionType")
CallsOf(op) == {i \in DOMAIN calls : calls[i].op = op}
LastCall == calls[Len(calls)]
\* The value json.loads gave the handler.
ParsedOutput == JsonLoads(h.ai_response_text.s)

\* C1: every 200 response is the JSON object parsed from the model's
\* output with its submissionType set to the request's submissionType and
\* every other member as parsed; an output that parses to anything but an
\* object never gives a 200.
C1_ResponseCarriesRequestCategory ==
  http.status = 200 =>
    /\ h.ai_response_text # None
    /\ ParsedOutput.ok /\ ParsedOutput.type = "dict"
    /\ DOMAIN http.body = DOMAIN ParsedOutput.d \cup {"submissionType"}
    /\ http.body["submissionType"] = RequestCategory.s
    /\ \A key \in DOMAIN ParsedOutput.d \ {"submissionType"} :
         http.body[key] = ParsedOutput.d[key]

\* A 200 whose model output carried another submissionType than the request.
C1_Witness ==
  /\ http.status = 200
  /\ "submissionType" \in DOMAIN ParsedOutput.d
  /\ ParsedOutput.d["submissionType"] # RequestCategory.s

\* The request was read without an exception (a form, or a JSON object).
RequestRead == request.body \in {"form", "object"}
CategoryOf(c) == Str(<<c>>)
NoFiles == \A name \in DOMAIN request.files : request.files[name] = <<>>
\* A valid category, a grade level and non-empty text, no uploaded file.
TextOnlyRequest ==
  /\ RequestRead
  /\ request.content_type \in {"multipart/form-data", "application/json"}
  /\ \E c \in Categories : RequestCategory = CategoryOf(c)
  /\ Truthy(RequestField("gradeLevel"))
  /\ RequestField("text").t = "str" /\ RequestField("text").s # <<>>
  /\ NoFiles
\* The model call was made and gave a candidate whose text parses to an object.
ModelGaveObject ==
  /\ calls # <<>> /\ LastCall.op = "model"
  /\ ~response.raises /\ response.candidates # <<>>
  /\ ParsedOutput.ok /\ ParsedOutput.type = "dict"
\* No external call made for the request failed.
ExternalCallsSucceeded == calls # <<>> => ModelGaveObject
TaggedOk == http.status = 200 /\ http.body["submissionType"] = RequestCategory.s

C3_NoContentRejected ==
  (/\ Done /\ RequestRead
   /\ RequestCategory \in {CategoryOf(c) : c \in TextEligible}
   /\ Truthy(RequestField("gradeLevel"))
   /\ ~Truthy(RequestField("text"))
   /\ request.files["essayImage"] = <<>>)
  => /\ http.status = 400
     /\ http.body = ErrorBody(<<"For ">> \o RequestCategory.s
                              \o <<", text input or an essay image is required.">>)
     /\ calls = <<>>

\* A quiz request with an empty text and an answer-key image only, answered 400.
C3_Witness ==
  /\ Done /\ RequestCategory = CategoryOf("quiz")
  /\ RequestField("text") = Str(<<>>) /\ Truthy(RequestField("gradeLevel"))
  /\ request.files["essayImage"] = <<>> /\ request.files["standardAnswerImage"] # <<>>
  /\ http.status = 400

\* C4: a request whose submissionType or gradeLevel is missing or empty
\* once it is read (multipart, JSON or any other content type) is answered
\* 400, and no external call is made for it.
C4_MissingFieldsRejected ==
  (/\ Done /\ RequestRead
   /\ (~Truthy(RequestCategory) \/ ~Truthy(RequestField("gradeLevel"))))
  => /\ http.status = 400
     /\ http.body = ErrorBody(<<"Missing submissionType or gradeLevel after parsing request">>)
     /\ calls = <<>>

\* A multipart learning_sheet request with its file but no gradeLevel, answered 400.
C4_Witness ==
  /\ Done /\ request.content_type = "multipart/form-data"
  /\ RequestCategory = CategoryOf("learning_sheet")
  /\ RequestField("gradeLevel") = None
  /\ request.files["learningSheetFile"] # <<>>
  /\ http.status = 400

\* The template of each category, as line 505-510 list them.
TemplateOfCategory(c) ==
  CASE c = "paragraph" -> <<"ai_english_prompt/", "paragraph.txt">>
    [] c = "quiz" -> <<"ai_english_prompt/", "quiz.txt">>
    [] c = "learning_sheet" -> <<"ai_english_prompt/", "learning_sheet.txt">>
    [] c = "reading_writing" -> <<"ai_english_prompt/", "reading_writing.txt">>

\* C5: a submissionType that is none of the four categories is answered
\* 400 before any external call, and every template fetch of a request is
\* for the template of the request's own category.
C5_OneCategoryDrives ==
  /\ (Done /\ RequestRead /\ RequestCategory \notin {CategoryOf(c) : c \in Categories})
       => (http.status = 400 /\ calls = <<>>)
  /\ \A i \in CallsOf("template") :
       /\ RequestCategory \in {CategoryOf(c) : c \in Categories}
       /\ calls[i].arg = TemplateOfCategory(RequestCategory.s[1])

\* The template of a learning_sheet request has been fetched.
C5_Witness ==
  /\ RequestCategory = CategoryOf("learning_sheet")
  /\ CallsOf("template") # {}

\* The model's concatenated text holds a fenced block from index b[1] to
\* b[2] whose content is a JSON object.
FencedObjects(text) ==
  {b \in {i \in 1..Len(text) : text[i] = "FENCE_JSON"}
         \X {j \in 1..Len(text) : text[j] = "FENCE"} :
     /\ b[1] < b[2]
     /\ JsonLoads(SubSeq(text, b[1] + 1, b[2] - 1)).ok
     /\ JsonLoads(SubSeq(text, b[1] + 1, b[2] - 1)).type = "dict"}

\* C6: when the model's concatenated text holds a fenced json block that
\* wraps a JSON object, the request ends in 200 with that object (its
\* submissionType set to the request's), whatever text surrounds the block.
C6_FencedObjectReturned ==
  (Done /\ CallsOf("model") # {} /\ ~response.raises /\ response.candidates # <<>>
   /\ FencedObjects(FullResponseText(response)) # {})
  => /\ http.status = 200
     /\ \E b \in FencedObjects(FullResponseText(response)) :
          http.body = DictSet(JsonLoads(SubSeq(FullResponseText(response),
                                               b[1] + 1, b[2] - 1)).d,
                              "submissionType", RequestCategory.s)

ImageOnly == {CategoryOf("learning_sheet"), CategoryOf("reading_writing")}

\* C7: a learning_sheet or reading_writing request whose content was
\* extracted is never answered before its template fetch, whatever the
\* reference loader did: every failure of the loader (unmapped grade or
\* category, file absent, storage raising, text that is no JSON or no
\* object, key absent) returns None, the answers substituted into the
\* prompt are then empty, and the request goes on to the template fetch
\* and the model call.
C7_MissingReferenceNeverFails ==
  (h.submission_type \in ImageOnly /\ h.essay_content # <<>>) =>
    /\ h.pc \in {"reference", "template", "model", "done"}
    /\ (Done => CallsOf("template") # {})
    /\ (CallsOf("reference") = {} /\ h.pc # "reference"
          => h.standard_answers_json_str = <<>>)
    /\ \A i \in CallsOf("reference") :
         /\ i < Len(calls) => calls[i + 1].op = "template"
         /\ calls[i].ret = None =>
              /\ h.standard_answers_json_str = <<>>
              /\ ~Contains(h.final_prompt, "answers_of")

\* A request whose reference fetch found nothing, answered 200.
C7_Witness ==
  /\ Done /\ http.status = 200
  /\ \E i \in CallsOf("reference") : calls[i].ret = None

\* C8: every handled request is answered 200, 400 or 500, a response other
\* than 200 is a JSON object with an `error` key, and an exception raised
\* in the handler (reading the request, seek on a file, .strip() of a
\* non-string, str.format, the model call, the handling of its response)
\* ends in such a response; nothing is answered before the handler is done.
C8_ErrorEnvelope ==
  /\ Done => /\ http.status \in {200, 400, 500}
             /\ (http.status # 200 => "error" \in DOMAIN http.body)
  /\ ~Done => http = NoResponse

\* An exception after the first external call, answered by the outer handler.
C8_Witness ==
  /\ Done /\ calls # <<>> /\ http.status = 500
  /\ http.body["error"] = <<"Internal server error during grading.">>

\* C9: when the template fetch gives nothing (blob absent, storage call
\* raising, empty text) or the template holds a replacement field that is
\* not supplied, the request is answered 500 with an error about the
\* template, and the model is not called.
C9_TemplateFailure ==
  \A i \in CallsOf("template") :
    LET text == calls[i].ret
        unsupplied == {k \in 1..Len(text.s) : text.s[k] \in ReplacementFields \ SuppliedFields}
    IN (~Truthy(text) \/ unsupplied # {}) =>
         /\ Done /\ http.status = 500
         /\ CallsOf("model") = {}
         /\ IF ~Truthy(text)
            THEN http.body["error"][1] = "Failed to load prompt template for "
            ELSE IF text.s[SetMin(unsupplied)] # "{}"
            THEN http.body["error"][1] = "Prompt template formatting error: Missing key "
            ELSE http.body = ErrorBodyWith(<<"Internal server error during grading.">>,
                                           "details", <<"IndexError">>)

\* A fetched template with a field that is not supplied, answered 500.
C9_Witness ==
  /\ Done /\ http.status = 500 /\ calls # <<>>
  /\ LastCall.op = "template" /\ LastCall.ret = Str(MissingKeyTemplate)

\* C10: when the model call raises or returns no candidate, the request is
\* answered 500 with an error envelope, and no text is taken from the
\* response and nothing is parsed.
C10_ModelFailure ==
  (CallsOf("model") # {} /\ (response.raises \/ response.candidates = <<>>)) =>
    /\ Done /\ http.status = 500
    /\ http.body["error"] =
         IF response.raises THEN <<"AI model API call failed.">>
         ELSE <<"AI model did not return a valid response (it might have been blocked).">>
    /\ h.full_response_text = None
    /\ h.ai_response_text = None

\* A response without candidates, answered 500.
C10_Witness ==
  /\ Done /\ CallsOf("model") # {}
  /\ ~response.raises /\ response.candidates = <<>>
  /\ http.status = 500

\* C11: when the model call raises or the response has no candidate, the
\* body sent to the caller is the same whatever the upstream error text or
\* block reason is: any other failure of the same kind would have given
\* this request the same body.
C11_GenericFailureBody ==
  (CallsOf("model") # {} /\ (response.raises \/ response.candidates = <<>>)) =>
    \A other \in PipelineResponses :
      (other.raises = response.raises /\ other.candidates = <<>>)
        => ModelReturn(h, other).http.body = http.body

\* C12: when json.loads fails on the text taken from the model's response,
\* the request is answered 500 and details_for_log is the concatenated
\* text of the response cut to its first 500 characters (the whole text
\* when it is shorter).
C12_ParseFailureDetail ==
  (Done /\ CallsOf("model") # {} /\ response.candidates # <<>>
   /\ ~JsonLoads(ExtractJsonText(FullResponseText(response))).ok) =>
    LET full == FullResponseText(response)
        detail == http.body["details_for_log"]
    IN /\ http.status = 500
       /\ http.body["error"] = <<"AI response format error (cannot parse JSON).">>
       /\ Len(detail) = (IF Len(full) <= 500 THEN Len(full) ELSE 500)
       /\ \A i \in 1..Len(detail) : detail[i] = full[i]

\* A text of 501 characters that is no JSON, answered with its first 500.
C12_Witness ==
  /\ Done /\ http.status = 500
  /\ CallsOf("model") # {} /\ response.candidates # <<>>
  /\ Len(FullResponseText(response)) = 501
  /\ "details_for_log" \in DOMAIN http.body
  /\ Len(http.body["details_for_log"]) = 500

\* The first invocation, as the record the second one is.
Own == [request |-> request, h |-> h, http |-> http, response |-> response, calls |-> calls]

\* The lexemes naming the files a request uploads.
FilesUploaded(req) ==
  UNION {{IdLexeme[req.files[f][i].id] : i \in 1..Len(req.files[f])} : f \in DOMAIN req.files}
ImageLexemes == {IdLexeme[i] : i \in 1..Len(IdLexeme)}

\* The images an invocation transcribed, sends to the model or quotes in
\* its content and prompt are files of its own request.
UsesOnlyOwnFiles(p) ==
  /\ \A i \in 1..Len(p.calls) :
       p.calls[i].op = "ocr" => p.calls[i].arg[1] \in FilesUploaded(p.request)
  /\ \A i \in 1..Len(p.h.contents_for_gemini) :
       \A j \in 1..Len(p.h.contents_for_gemini[i].data) :
         p.h.contents_for_gemini[i].data[j] \in ImageLexemes
           => p.h.contents_for_gemini[i].data[j] \in FilesUploaded(p.request)
  /\ \A i \in 1..Len(p.h.essay_content) :
       p.h.essay_content[i] \in ImageLexemes
         => p.h.essay_content[i] \in FilesUploaded(p.request)

\* The states an invocation in state p can step to, computed from p, the
\* answer of its external call and the handles alone.
StepsAlone(p, cl) ==
  CASE p.h.pc = "ocr_student" ->
         {AfterOcrStudent(p, v, io) : v \in VisionOutcomesOf(cl), io \in FileOutcomes}
    [] p.h.pc = "ocr_answer" ->
         {AfterOcrAnswer(p, v, io) : v \in VisionOutcomesOf(cl), io \in FileOutcomes}
    [] p.h.pc = "reference" -> {AfterReference(p, o) : o \in ReferenceOutcomesOf(cl)}
    [] p.h.pc = "template" -> {AfterTemplate(p, o) : o \in TemplateOutcomesOf(cl)}
    [] p.h.pc = "model" -> {AfterModel(p, r) : r \in ModelResponsesOf(cl, ConcurrentResponses)}
    [] p.h.pc = "done" -> {IdleHandler}
    [] OTHER -> {}

IsolatedStep(p, q, cl) ==
  \/ q = p
  \/ p.h.pc = "idle" /\ q = AfterReceive(q.request)
  \/ q \in StepsAlone(p, cl)

\* C13: with two requests handled at the same time, in any interleaving,
\* a step of one invocation leaves the other's request, locals, calls and
\* response as they are; what the step gives is fixed by the invocation's
\* own state and the answer to its own call; the images it transcribes,
\* sends and quotes are those of its own request; and no step writes
\* vision_client, storage_client, gemini_model or tools_list.
C13_RequestsIsolated ==
  [][/\ clients' = clients
     /\ (Own' # Own => peer' = peer)
     /\ IsolatedStep(Own, Own', clients)
     /\ IsolatedStep(peer, peer', clients)
     /\ UsesOnlyOwnFiles(Own') /\ UsesOnlyOwnFiles(peer')]_vars

\* Two requests of different categories in flight together, both past
\* their calls, one answered 200 and the other 500.
C13_Witness ==
  /\ h.pc = "done" /\ peer.h.pc = "done"
  /\ calls # <<>> /\ peer.calls # <<>>
  /\ request.form["submissionType"] # peer.request.form["submissionType"]
  /\ http.status = 200 /\ peer.http.status = 500

\* The lexemes of the files of a list that have a filename, in order.
NamedFiles(files) ==
  LET RECURSIVE Names(_)
      Names(i) == IF i > Len(files) THEN <<>>
                  ELSE (IF files[i].named THEN <<IdLexeme[files[i].id]>> ELSE <<>>)
                       \o Names(i + 1)
  IN Names(1)

\* The images the request has the handler transcribe: the files of the
\* category's field unless `text` is used, then the answer-key images of
\* a quiz without an answer-key text.
ImagesToTranscribe ==
  (IF h.submission_type \in {Str(<<c>>) : c \in TextEligible} /\ Truthy(h.text_input)
   THEN <<>>
   ELSE NamedFiles(StudentFiles(h)))
  \o (IF h.submission_type = Str(<<"quiz">>) /\ ~Truthy(h.standard_answer_text)
      THEN NamedFiles(h.standard_answer_image_files) ELSE <<>>)

OcrCalls == SelectSeq(calls, LAMBDA c : c.op = "ocr")
OcrFailed(c) == c.ret.s # <<>> /\ c.ret.s[1] = "OCR_ERROR:"

\* C14: one request makes at most one model call, one template fetch and
\* one reference fetch, whatever their outcome; the OCR calls are one per
\* image, in upload order, none repeated after a failure, and a request
\* that got past extraction has made exactly one for each of its images.
C14_NoRetries ==
  h.pc # "idle" =>
    /\ Cardinality(CallsOf("model")) <= 1
    /\ Cardinality(CallsOf("template")) <= 1
    /\ Cardinality(CallsOf("reference")) <= 1
    /\ Len(OcrCalls) <= Len(ImagesToTranscribe)
    /\ \A i \in 1..Len(OcrCalls) : OcrCalls[i].arg = <<ImagesToTranscribe[i]>>
    /\ (CallsOf("template") # {} => Len(OcrCalls) = Len(ImagesToTranscribe))

\* Two images, the OCR of one failed, the template fetched and the model
\* call raising: four calls in all.
C14_Witness ==
  /\ Done /\ Len(OcrCalls) = 2
  /\ \E i \in 1..2 : OcrFailed(OcrCalls[i])
  /\ response.raises
  /\ Len(calls) = 4

\* The stage an external call belongs to.
StageOf(op) ==
  CASE op = "ocr" -> 1 [] op = "reference" -> 2 [] op = "template" -> 3 [] op = "model" -> 4

\* C15: the calls of one request are made in the order OCR, reference
\* fetch, template fetch, model call; the model is called (or about to be)
\* only with content extracted and the fetched template filled and put
\* first among the segments; a 200 is given right after the model call;
\* and a request answered 400 has fetched no template and called no model.
C15_StageOrder ==
  /\ \A i \in DOMAIN calls, j \in DOMAIN calls :
       i < j => StageOf(calls[i].op) <= StageOf(calls[j].op)
  /\ (h.pc = "model" \/ CallsOf("model") # {}) =>
       /\ h.essay_content # <<>>
       /\ \E i \in CallsOf("template") :
            /\ Truthy(calls[i].ret)
            /\ h.final_prompt = Format(h, calls[i].ret.s)
       /\ h.contents_for_gemini[1] = Part_from_text(h.final_prompt)
  /\ (h.pc \in {"reference", "template"} => h.essay_content # <<>>)
  /\ (http.status = 200 => LastCall.op = "model")
  /\ (http.status = 400 => CallsOf("template") = {} /\ CallsOf("model") = {})

\* A request that went through all four stages and was answered 200.
C15_Witness ==
  /\ http.status = 200
  /\ \A op \in {"ocr", "reference", "template", "model"} : CallsOf(op) # {}

\* The content of the request comes from the images of its category's field.
ContentFromImages ==
  /\ Truthy(h.submission_type) /\ h.submission_type.s[1] \in Categories
  /\ ~(h.submission_type.s[1] \in TextEligible /\ Truthy(h.text_input))

\* The OCR calls made on the student's images, in order.
StudentOcrCalls ==
  SelectSeq(OcrCalls, LAMBDA c : \E i \in 1..Len(StudentFiles(h)) :
                                   c.arg = <<IdLexeme[StudentFiles(h)[i].id]>>)

\* perform_ocr gave the transcription of the image, and it is not blank.
Transcribed(c) == ~OcrFailed(c) /\ Strip(c.ret.s) # <<>>

RECURSIVE Returned(_)
Returned(cs) == IF cs = <<>> THEN <<>> ELSE <<Head(cs).ret.s>> \o Returned(Tail(cs))

\* C16: the content extracted from images is the transcriptions of the
\* images whose OCR succeeded with a text that is not blank, in upload
\* order, joined by "\n\n": none of them is left out and nothing else is
\* in it.
C16_ContentIsTranscriptions ==
  (ContentFromImages /\ h.essay_content # <<>>) =>
    h.essay_content = Join(<<"\n", "\n">>, Returned(SelectSeq(StudentOcrCalls, Transcribed)))

\* The request was answered with the 400 of lines 369, 398 and 425.
RejectedForOcr ==
  /\ http.status = 400
  /\ http.body["error"][1] = "OCR failed or returned empty for all provided "

\* C17: a request whose content comes from images is rejected for its OCR
\* only when the OCR of every image failed or gave a blank text, and then
\* before any template fetch or model call; one that goes on has a
\* transcription of at least one image; and a failed OCR call alone does
\* not end the request.
C17_RejectedOnlyWhenNothingUsable ==
  /\ RejectedForOcr =>
       /\ \A i \in 1..Len(StudentOcrCalls) : ~Transcribed(StudentOcrCalls[i])
       /\ CallsOf("template") = {} /\ CallsOf("model") = {}
  /\ (ContentFromImages /\ h.essay_content # <<>>) =>
       \E i \in 1..Len(StudentOcrCalls) : Transcribed(StudentOcrCalls[i])
  /\ (calls # <<>> /\ LastCall.op = "ocr" /\ OcrFailed(LastCall)) =>
       ~(http.status = 500)
       \/ http.body["details"] = <<"seek">>

\* The lexemes naming the essayImage files of the request.
EssayImages ==
  {IdLexeme[request.files["essayImage"][i].id] : i \in 1..Len(request.files["essayImage"])}

\* A multipart or JSON request of a text-eligible category with a grade
\* level and a non-empty string `text`, past the parsing of its fields.
TextGiven ==
  /\ h.pc # "idle" /\ RequestRead
  /\ request.content_type \in {"multipart/form-data", "application/json"}
  /\ RequestCategory \in {CategoryOf(c) : c \in TextEligible}
  /\ Truthy(RequestField("gradeLevel"))
  /\ RequestField("text").t = "str" /\ RequestField("text").s # <<>>

\* C18: for paragraph and quiz requests with non-empty `text`, the
\* extracted content is the text as given, no OCR call is made on an
\* essayImage file and no essayImage file is among the model's segments,
\* also when essay images were uploaded.
C18_TextTakesPrecedence ==
  TextGiven =>
    /\ h.essay_content = RequestField("text").s
    /\ \A i \in CallsOf("ocr") : calls[i].arg[1] \notin EssayImages
    /\ \A i \in 1..Len(h.contents_for_gemini) :
         h.contents_for_gemini[i].kind = "image"
           => h.contents_for_gemini[i].data[1] \notin EssayImages
    /\ h.ocr_results = <<>>

\* Text and an essay image in one request, answered 200.
C18_Witness ==
  /\ TextGiven /\ EssayImages # {}
  /\ http.status = 200

RECURSIVE TextOfParts(_)
\* The texts of the parts that have one, concatenated in order.
TextOfParts(parts) ==
  IF parts = <<>> THEN <<>>
  ELSE (IF Head(parts).has_text THEN Head(parts).text ELSE <<>>) \o TextOfParts(Tail(parts))

C19_WitnessSecondCandidate ==
  /\ http.status = 500
  /\ Len(response.candidates) = 2
  /\ JsonLoads(TextOfParts(response.candidates[2])).ok

\* Whether a field of the request belongs to the category st.
OwnField(st, name) ==
  CASE name \in {"submissionType", "gradeLevel"} -> TRUE
    [] name \in {"text", "essayImage"} -> st \in {CategoryOf(c) : c \in TextEligible}
    [] name \in {"standardAnswerText", "scoringInstructions", "standardAnswerImage"} ->
         st = CategoryOf("quiz")
    [] name \in {"learnsheets", "worksheetCategory", "learningSheetFile"} ->
         st = CategoryOf("learning_sheet")
    [] name \in {"bookrange", "readingWritingFile"} -> st = CategoryOf("reading_writing")

\* The request without the fields of the other categories.
WithoutForeignFields(req) ==
  LET st == req.form["submissionType"]
  IN [req EXCEPT
        !.form = [f \in DOMAIN req.form |-> IF OwnField(st, f) THEN req.form[f] ELSE None],
        !.files = [f \in DOMAIN req.files |-> IF OwnField(st, f) THEN req.files[f] ELSE <<>>]]

\* The locals without what was read from the fields of the other
\* categories (the handler gives the two quiz texts "" when absent).
WithoutForeignLocals(hh) ==
  LET st == hh.submission_type
      own(name, v, none) == IF OwnField(st, name) THEN v ELSE none
  IN [hh EXCEPT
        !.text_input = own("text", @, None),
        !.bookrange = own("bookrange", @, None),
        !.learnsheets = own("learnsheets", @, None),
        !.worksheet_category = own("worksheetCategory", @, None),
        !.standard_answer_text = own("standardAnswerText", @, None),
        !.scoring_instructions = own("scoringInstructions", @, None),
        !.essay_image_files = own("essayImage", @, <<>>),
        !.learning_sheet_files = own("learningSheetFile", @, <<>>),
        !.reading_writing_files = own("readingWritingFile", @, <<>>),
        !.standard_answer_image_files = own("standardAnswerImage", @, <<>>)]

\* Invocation q is invocation p run on the request without its foreign
\* fields: the same calls, the same response, the same locals (and so the
\* same prompt and segments) but for the foreign ones.
SameButForeign(p, q) ==
  /\ q.http = p.http
  /\ q.calls = p.calls
  /\ q.h = WithoutForeignLocals(p.h)

OwnWithoutForeign ==
  [Own EXCEPT !.request = WithoutForeignFields(request), !.h = WithoutForeignLocals(h)]

\* C20: a request of one of the four categories, multipart or JSON, and
\* the same request without the fields of the other categories are handled
\* alike: reading them gives the same locals but for the foreign ones, and
\* from locals that hold foreign values every step with the same answer of
\* its external call gives the same call, the same response and again the
\* same locals, the prompt and the segments among them.  No reference call
\* is made for paragraph or quiz.
C20_ForeignFieldsIgnored ==
  (h.pc # "idle" /\ RequestRead /\ \E c \in Categories : RequestCategory = CategoryOf(c)) =>
    /\ calls = <<>> =>
         SameButForeign(AfterReceive(request), AfterReceive(WithoutForeignFields(request)))
    /\ h # WithoutForeignLocals(h) =>
         /\ h.pc = "ocr_student" =>
              \A v \in VisionOutcomes, io \in FileOutcomes :
                SameButForeign(AfterOcrStudent(Own, v, io),
                               AfterOcrStudent(OwnWithoutForeign, v, io))
         /\ h.pc = "ocr_answer" =>
              \A v \in VisionOutcomes, io \in FileOutcomes :
                SameButForeign(AfterOcrAnswer(Own, v, io),
                               AfterOcrAnswer(OwnWithoutForeign, v, io))
         /\ h.pc = "reference" =>
              \A o \in ReferenceOutcomes :
                SameButForeign(AfterReference(Own, o), AfterReference(OwnWithoutForeign, o))
         /\ h.pc = "template" =>
              \A o \in TemplateOutcomes :
                SameButForeign(AfterTemplate(Own, o), AfterTemplate(OwnWithoutForeign, o))
         /\ h.pc = "model" =>
              \A r \in PipelineResponses :
                SameButForeign(AfterModel(Own, r), AfterModel(OwnWithoutForeign, r))
    /\ (RequestCategory \in {CategoryOf(c) : c \in TextEligible} => CallsOf("reference") = {})

\* A JSON paragraph request carrying bookrange, learnsheets and
\* worksheetCategory, answered 200.
C20_Witness ==
  /\ http.status = 200
  /\ request.content_type = "application/json"
  /\ RequestCategory = CategoryOf("paragraph")
  /\ Truthy(h.bookrange) /\ Truthy(h.learnsheets) /\ Truthy(h.worksheet_category)

\* A multipart learning_sheet request carrying text and an essayImage
\* file beside its own file, answered 200.
C20_WitnessMultipart ==
  /\ http.status = 200
  /\ RequestCategory = CategoryOf("learning_sheet")
  /\ Truthy(h.text_input) /\ h.essay_image_files # <<>>

\* The image segments of a list of files, in the order of the list.
ImageSegments(files) == [i \in 1..Len(files) |-> Part_from_data(files[i])]

\* The files of a list at the positions S, in the order of the list.
FilesAt(files, S) ==
  LET RECURSIVE Pick(_)
      Pick(i) == IF i > Len(files) THEN <<>>
                 ELSE (IF i \in S THEN <<files[i]>> ELSE <<>>) \o Pick(i + 1)
  IN Pick(1)

\* The request's student images when they are processed, and the text
\* that introduces them.
StudentImagesProcessed ==
  IF RequestCategory \in {CategoryOf(c) : c \in TextEligible}
  THEN (IF Truthy(RequestField("text")) THEN <<>> ELSE request.files["essayImage"])
  ELSE IF RequestCategory = CategoryOf("learning_sheet") THEN request.files["learningSheetFile"]
  ELSE IF RequestCategory = CategoryOf("reading_writing") THEN request.files["readingWritingFile"]
  ELSE <<>>
StudentIntro ==
  IF RequestCategory = CategoryOf("learning_sheet") THEN <<"learning_sheet_images_intro">>
  ELSE IF RequestCategory = CategoryOf("reading_writing") THEN <<"reading_writing_images_intro">>
  ELSE <<"essay_images_intro">>
StudentSegments ==
  IF StudentImagesProcessed = <<>> THEN <<>>
  ELSE <<Part_from_text(StudentIntro)>> \o ImageSegments(StudentImagesProcessed)

AnswerKeyImages ==
  IF RequestCategory = CategoryOf("quiz") THEN request.files["standardAnswerImage"] ELSE <<>>
AnswerIntro == Part_from_text(<<"standard_answer_images_intro">>)
SentToModel == h.pc = "model" \/ CallsOf("model") # {}
PromptSegment == Part_from_text(h.final_prompt)

\* C21 as the specification states it: every answer-key image of a quiz
\* follows the second introduction.
C21_Original ==
  SentToModel =>
    h.contents_for_gemini =
      <<PromptSegment>> \o StudentSegments
      \o (IF AnswerKeyImages = <<>> THEN <<>>
          ELSE <<AnswerIntro>> \o ImageSegments(AnswerKeyImages))

\* C21: the segments sent to the model are the filled prompt, then, when
\* student images were processed, their introduction and every student
\* image in upload order, then, for a quiz with answer-key images and no
\* answer-key text, the second introduction and, in upload order, those of
\* the answer-key images whose read did not fail; a text-only request
\* without answer-key images sends the prompt alone.  Each answer-key
\* image is appended when its read succeeds and left out when it fails.
C21_SegmentOrder ==
  /\ SentToModel =>
       /\ h.final_prompt # <<>>
       /\ IF AnswerKeyImages = <<>> \/ Truthy(RequestField("standardAnswerText"))
          THEN h.contents_for_gemini = <<PromptSegment>> \o StudentSegments
          ELSE \E S \in SUBSET (1..Len(AnswerKeyImages)) :
                 h.contents_for_gemini =
                   <<PromptSegment>> \o StudentSegments \o <<AnswerIntro>>
                   \o ImageSegments(FilesAt(AnswerKeyImages, S))
       /\ (StudentImagesProcessed = <<>> /\ AnswerKeyImages = <<>>)
            => Len(h.contents_for_gemini) = 1
  /\ h.pc = "ocr_answer" =>
       \A vision \in VisionOutcomes, io \in FileOutcomes \ {"seek_raises"} :
         AnswerImageReturn(h, vision, io).frame.contents_for_gemini =
           IF io = "read_raises" THEN h.contents_for_gemini
           ELSE Append(h.contents_for_gemini,
                       Part_from_data(AnswerKeyImages[h.k]))

\* A quiz with one essay image and one answer-key image, both read: five
\* segments sent to the model.
C21_Witness ==
  /\ CallsOf("model") # {}
  /\ RequestCategory = CategoryOf("quiz")
  /\ Len(h.contents_for_gemini) = 5
  /\ h.contents_for_gemini[2].kind = "text" /\ h.contents_for_gemini[3].kind = "image"
  /\ h.contents_for_gemini[4] = AnswerIntro /\ h.contents_for_gemini[5].kind = "image"

\* A quiz whose answer-key image could not be read: the second
\* introduction is the last segment sent.
C21_WitnessUnreadAnswerKey ==
  /\ CallsOf("model") # {}
  /\ AnswerKeyImages # <<>>
  /\ h.contents_for_gemini[Len(h.contents_for_gemini)] = AnswerIntro

\* What the bucket holds for the request's category.
InBucket == bucket[PromptFileName(h.submission_type)]
Usable(content) == content.kind = "text" /\ content.text # <<>>

\* C22: a request is about to call the model only after one template
\* fetch of its own, and the step that fetches reads the bucket as it is
\* at that moment: the call returns the text now stored under the path of
\* the request's category, the prompt is that text filled, and a path that
\* now holds nothing gives 500, whatever an earlier request fetched.
C22_TemplateFetchedPerRequest ==
  [][/\ h'.pc = "model" =>
          /\ Cardinality({i \in DOMAIN calls' : calls'[i].op = "template"}) = 1
          /\ calls'[Len(calls')].op = "template"
     /\ (h.pc = "template" /\ h'.pc # "template") =>
          /\ calls' = Append(calls, Call("template", PromptPath(h),
                                         IF InBucket.kind = "text" THEN Str(InBucket.text)
                                         ELSE None))
          /\ IF Usable(InBucket)
             THEN /\ h'.pc = "model"
                  /\ h'.final_prompt = Format(h, InBucket.text)
                  /\ h'.contents_for_gemini[1] = Part_from_text(Format(h, InBucket.text))
             ELSE /\ h'.pc = "done" /\ http'.status = 500]_vars

\* A request answered 200 whose prompt is the revised template filled:
\* the bucket was changed after start-up, and has been changed again
\* since the fetch.
C22_Witness ==
  /\ http.status = 200
  /\ h.final_prompt # <<>> /\ h.final_prompt[1] = "Revised:"
  /\ InBucket.kind = "absent"

\* C23: a request that is being handled is answered in the end, given
\* that each external call returns or raises; it has a response exactly
\* when the handler has returned, the response is a 200, 400 or 500, the
\* handler waits on nothing but its external calls, and nothing follows
\* the response but the end of the request.
C23_EveryRequestAnswered ==
  /\ [][/\ h'.pc \in {"idle", "ocr_student", "ocr_answer", "reference", "template",
                       "model", "done"}
        /\ (http'.status # 0) = (h'.pc = "done")
        /\ http'.status \in {0, 200, 400, 500}
        /\ h.pc = "done" => (h'.pc = "idle" /\ http' = NoResponse)]_vars
  /\ (h.pc # "idle") ~> (h.pc = "done")

\* A quiz answered after the handler went through both of its loops,
\* over a student image and an answer-key image, and every later call.
C23_Witness ==
  /\ h.pc = "done" /\ http.status = 200
  /\ Len(h.essay_image_files) = 1 /\ Len(h.standard_answer_image_files) = 1
  /\ Len(OcrCalls) = 2
  /\ CallsOf("template") # {} /\ CallsOf("model") # {}

\* The request gives no content but empty or whitespace-only text.
OnlyBlankContent ==
  /\ RequestCategory \in {CategoryOf(c) : c \in TextEligible}
  /\ RequestField("text") = None
     \/ (RequestField("text").t = "str" /\ Strip(RequestField("text").s) = <<>>)
  /\ request.files["essayImage"] = <<>>

\* C24: the model is called (or about to be) only with student content
\* that has a character other than whitespace, and a request that is read
\* and gives nothing but empty or whitespace-only text is answered 400
\* with no template fetched and no model called.
C24_ContentNotBlank ==
  /\ SentToModel => Strip(h.essay_content) # <<>>
  /\ (Done /\ RequestRead /\ Truthy(RequestField("gradeLevel")) /\ OnlyBlankContent) =>
       /\ http.status = 400
       /\ CallsOf("template") = {} /\ CallsOf("model") = {}

OtherContentType ==
  request # NoRequest /\ request.content_type \notin {"multipart/form-data", "application/json"}

\* The 400 bodies a request without text and files can get.
RejectionsWithoutContent ==
  {ErrorBody(<<"Missing submissionType or gradeLevel after parsing request">>),
   ErrorBody(<<"For ">> \o ToStr(RequestCategory)
             \o <<", text input or an essay image is required.">>),
   ErrorBody(<<"Learning sheet file is required for ">> \o ToStr(RequestCategory)),
   ErrorBody(<<"Reading/writing worksheet file is required for ">> \o ToStr(RequestCategory)),
   ErrorBody(<<"Unsupported submission type for content processing: ">>
             \o ToStr(RequestCategory))}

\* C25: a request whose content type is neither multipart/form-data nor
\* JSON is answered at once with one of the 400s for missing fields,
\* missing content or file, or unsupported type, whatever its form holds;
\* of its fields only submissionType and gradeLevel reach the handler's
\* locals, and no external call is made for it.
C25_OtherContentTypeRejected ==
  (h.pc # "idle" /\ OtherContentType) =>
    /\ Done /\ http.status = 400
    /\ http.body \in RejectionsWithoutContent
    /\ calls = <<>>
    /\ h = [InitialFrame EXCEPT !.pc = "done",
                                !.submission_type = RequestCategory,
                                !.grade_level = RequestField("gradeLevel")]

\* A form-encoded paragraph request with a grade level, text and the
\* optional fields, answered 400.
C25_Witness ==
  /\ Done /\ OtherContentType
  /\ RequestCategory = CategoryOf("paragraph")
  /\ Truthy(RequestField("gradeLevel"))
  /\ RequestField("text") = Str(<<"essay">>) /\ Truthy(RequestField("bookrange"))
  /\ http.status = 400

\* The OCR calls made on the answer-key images, in order.
AnswerOcrCalls ==
  SelectSeq(OcrCalls, LAMBDA c : \E i \in 1..Len(AnswerKeyImages) :
                                   c.arg = <<IdLexeme[AnswerKeyImages[i].id]>>)

\* The quiz is past its answer key: the template is being fetched or was.
AnswerKeyReady ==
  /\ RequestCategory = CategoryOf("quiz")
  /\ h.pc \in {"template", "model"} \/ CallsOf("template") # {}

\* C26: for a quiz, a non-empty standardAnswerText is the answer key as it
\* is, and then no answer-key image is transcribed or sent; otherwise with
\* answer-key images the answer key is the transcriptions of those whose
\* OCR succeeded with a text that is not blank, in upload order and joined
\* by "\n\n", or the placeholder when there is none; neither a failed OCR
\* nor a failed read of an answer-key image gives a response, while a
\* failed read of a student image gives 400.
C26_AnswerKeyOptional ==
  /\ (AnswerKeyReady /\ Truthy(RequestField("standardAnswerText"))) =>
       /\ h.processed_standard_answer = RequestField("standardAnswerText").s
       /\ AnswerOcrCalls = <<>>
       /\ \A i \in DOMAIN h.contents_for_gemini, j \in 1..Len(AnswerKeyImages) :
            h.contents_for_gemini[i] # Part_from_data(AnswerKeyImages[j])
  /\ (AnswerKeyReady /\ ~Truthy(RequestField("standardAnswerText"))
        /\ AnswerKeyImages # <<>>) =>
       h.processed_standard_answer =
         IF SelectSeq(AnswerOcrCalls, Transcribed) # <<>>
         THEN Join(<<"\n", "\n">>, Returned(SelectSeq(AnswerOcrCalls, Transcribed)))
         ELSE <<"standard_answer_ocr_failed_placeholder">>
  /\ h.pc = "ocr_answer" =>
       \A vision \in VisionOutcomes, io \in FileOutcomes \ {"seek_raises"} :
         AnswerImageReturn(h, vision, io).http = NoResponse
  /\ h.pc = "ocr_student" =>
       \A vision \in VisionOutcomes :
         StudentImageReturn(h, vision, "read_raises").http.status = 400

\* C27: after a start-up that raised, the names it left undefined stay
\* undefined, requests are still handled, and each of them is answered
\* with 400 or 500 and a JSON object with an error member, never with 200.
C27_StartupFailureNeverSucceeds ==
  [][/\ clients' = clients
     /\ clients' # Initialised =>
          /\ http'.status \in {0, 400, 500}
          /\ h'.pc = "done" => (http'.status # 0 /\ "error" \in DOMAIN http'.body)]_vars

\* Start-up raised after gemini_model was set: a request with text gets
\* its template and is answered 500 when generate_content is called with
\* the undefined tools_list.
C27_Witness ==
  /\ clients["gemini_model"] /\ ~clients["tools_list"]
  /\ Done /\ http.status = 500
  /\ CallsOf("template") # {} /\ LastCall.op = "model"
  /\ http.body["error"] = <<"AI model API call failed.">>

\* Start-up raised at its first statement: a request with an image is
\* answered 400, its OCR failing on the undefined vision_client.
C27_WitnessNoClients ==
  /\ \A name \in DOMAIN clients : ~clients[name]
  /\ Done /\ http.status = 400
  /\ calls # <<>> /\ LastCall.op = "ocr" /\ OcrFailed(LastCall)

====
